---- MODULE Spec2Model ----
(***************************************************************************)
(* A model of pgmock (CloverHealth/pgmock): the comment / string-literal   *)
(* masking pass, the paren balancer, the Renderer with its Views and       *)
(* matchers, and the patch (rewrite) operation.                            *)
(*                                                                         *)
(* Texts are sequences of one-character strings, offsets are Python        *)
(* offsets (0-based, half-open slices); PySlice gives Python's slicing     *)
(* semantics, negative indices included.                                   *)
(***************************************************************************)
EXTENDS Integers, Sequences, FiniteSets, TLC

VARIABLES
    pc,         \* position of the modelled call ("input", "render", "done", ...);
                \* one position per thread where calls of sql run concurrently
    sql,        \* the text handed to the operation under study
    arg,        \* the remaining arguments of the call (a record)
    out,        \* what a function call returned or raised (a record)
    config,     \* pgmock.config: the processwide settings
    renderer,   \* the Renderer held by the loop of Renderable.render
    last,       \* the operation applied last and what it was applied to
    renderables,    \* the Renderable objects (Selectors, Mockers) alive, by
                    \* identity; with the lists they hold by reference where
                    \* those are shared
    side_effects,   \* the SideEffect objects alive, by identity
    contextable,    \* the _ContextableConfigValue of the setting under study
                    \* (set_replace_new_patch_aliases or set_safe_mode): its
                    \* save stack and _old_value
    mockers         \* the Mockers that can be started and stopped

\* the objects that the masking, paren and render steps never touch
objects == <<renderables, side_effects, contextable, mockers>>

vars == <<pc, sql, arg, out, config, renderer, last, renderables, side_effects,
          contextable, mockers>>

(***************************************************************************)
(* Python helpers                                                          *)
(***************************************************************************)
Min(a, b) == IF a < b THEN a ELSE b
Max(a, b) == IF a > b THEN a ELSE b

\* Python's normalisation of one slice index against a length (step 1).
PyIndex(i, n) == IF i < 0 THEN Max(i + n, 0) ELSE Min(i, n)

\* s[start:stop] of Python, on a sequence; offsets are 0-based.
PySlice(s, start, stop) ==
    SubSeq(s, PyIndex(start, Len(s)) + 1, PyIndex(stop, Len(s)))

\* s[start:] and s[:stop] of Python.
PyFrom(s, start) == PySlice(s, start, Len(s))
PyUpTo(s, stop) == PySlice(s, 0, stop)

\* ' ' * n
Spaces(n) == [i \in 1..n |-> " "]

\* text.startswith(tok, i) with i a 0-based offset
StartsWithAt(s, tok, i) ==
    /\ i >= 0
    /\ i + Len(tok) <= Len(s)
    /\ \A k \in 1..Len(tok) : s[i + k] = tok[k]

\* All texts over an alphabet up to a length
SeqsUpTo(S, n) == UNION {[1..k -> S] : k \in 0..n}

\* min(S) and max(S) of a non-empty set of integers
Least(S) == CHOOSE x \in S : \A y \in S : x <= y
Greatest(S) == CHOOSE x \in S : \A y \in S : x >= y

(***************************************************************************)
(* 4.1 Masking: _strip_comments_and_string_literals                        *)
(***************************************************************************)
NoToken == <<>>
LineTok == <<"-", "-">>
BlockTok == <<"/", "*">>
BlockEnd == <<"*", "/">>
SQuote == <<"'">>
DQuote == <<"\"">>
Newline == <<"\n">>

\* The keys of the _SPLITTER_REGEXES table.
SplitterKeys == {NoToken, LineTok, SQuote, BlockTok}

\* The alternatives of the regex stored under a key, in the regex's order.
SplitterTokens(key) ==
    IF key = NoToken THEN <<LineTok, SQuote, DQuote, BlockTok>>
    ELSE IF key = LineTok THEN <<Newline>>
    ELSE IF key = SQuote THEN <<SQuote>>
    ELSE <<BlockEnd>>

\* The token the regex of `key` matches at offset i (NoToken when none):
\* the first alternative that matches there.
FirstOf(toks, hits) == IF hits = {} THEN NoToken ELSE toks[Least(hits)]
TokenAmong(s, toks, i) ==
    FirstOf(toks, {k \in 1..Len(toks) : StartsWithAt(s, toks[k], i)})
TokenAt(s, key, i) == TokenAmong(s, SplitterTokens(key), i)

\* The offsets at which the regex of `key` matches.
TokenOffsets(s, key) == {i \in 0..(Len(s) - 1) : TokenAt(s, key, i) # NoToken}

\* <<prefix, token, rest>> for the match of token tok at offset i.
SplitAround(s, i, tok) == <<PyUpTo(s, i), tok, PyFrom(s, i + Len(tok))>>

\* The split at the leftmost of the offsets `at`, <<sql>> when there is none.
SplitAtFirst(s, key, at) ==
    IF at = {} THEN <<s>> ELSE SplitAround(s, Least(at), TokenAt(s, key, Least(at)))

\* split_regex.split(sql, 1): <<prefix, token, rest>>, or <<sql>> when the
\* regex matches nowhere.  The match is the leftmost one.
RegexSplit1(s, key) == SplitAtFirst(s, key, TokenOffsets(s, key))

RECURSIVE StripLoop(_, _, _)
\* The rest of one iteration of the while loop, once split_parts is known.
StripParts(split_parts, stripped_sql, previous_split_token) ==
    IF Len(split_parts) < 3
    THEN IF previous_split_token # NoToken
         THEN [err |-> "none",
               text |-> stripped_sql \o Spaces(Len(split_parts[1]))]
         ELSE [err |-> "none", text |-> stripped_sql \o split_parts[1]]
    ELSE IF previous_split_token # NoToken
         THEN StripLoop(split_parts[3],
                        stripped_sql \o Spaces(Len(split_parts[1]))
                                     \o split_parts[2],
                        NoToken)
         ELSE StripLoop(split_parts[3],
                        stripped_sql \o split_parts[1] \o split_parts[2],
                        split_parts[2])

\* The while loop of _strip_comments_and_string_literals with its three
\* locals; the result is [err, text].
StripLoop(rest, stripped_sql, previous_split_token) ==
    IF rest = <<>> THEN [err |-> "none", text |-> stripped_sql]
    ELSE IF previous_split_token \notin SplitterKeys
    THEN [err |-> "KeyError", text |-> <<>>]
    ELSE StripParts(RegexSplit1(rest, previous_split_token), stripped_sql,
                    previous_split_token)

_strip_comments_and_string_literals(s) == StripLoop(s, <<>>, NoToken)

(***************************************************************************)
(* Specification of the masking pass alone                                 *)
(***************************************************************************)
MaxMaskLen == 5
MaskChars == {"a", "\n", "-", "/", "*", "'", "\""}

NoArg == [kind |-> "none"]
NoOut == [err |-> "none", text |-> <<>>]

\* pgmock.config as imported: safe mode off, alias replacement on.
DefaultConfig == [safe_mode |-> FALSE, replace_new_patch_aliases |-> TRUE]

\* No Renderer has been built, no render method applied.
NoRenderer == [err |-> "unbuilt", n |-> 0, raw_sql |-> <<>>, search_sql |-> <<>>,
               views |-> <<>>]
NoLast == [op |-> [name |-> "none"], before |-> NoRenderer, step |-> 0]

\* UNDEFINED_VALUE, the sentinel of pgmock.config: _old_value holds <<v>>
\* when the value v was set aside, and the sentinel otherwise
UNDEFINED_VALUE == <<>>

\* _ContextableConfigValue.__init__: an empty save stack, no value set aside
NewContextable == [_value_stack |-> <<>>, _old_value |-> UNDEFINED_VALUE]

\* no Renderable, SideEffect or Mocker has been made
NoObjects ==
    /\ renderables = <<>>
    /\ side_effects = <<>>
    /\ contextable = NewContextable
    /\ mockers = <<>>

MaskInit ==
    /\ pc = "input"
    /\ sql \in SeqsUpTo(MaskChars, MaxMaskLen)
    /\ arg = NoArg
    /\ out = NoOut
    /\ config = DefaultConfig
    /\ renderer = NoRenderer
    /\ last = NoLast
    /\ NoObjects

\* assert len(self.search_sql) == len(self.raw_sql) on the stripped text r
CheckedLength(s, r) ==
    IF r.err # "none" THEN r
    ELSE IF Len(r.text) # Len(s) THEN [err |-> "AssertionError", text |-> r.text]
    ELSE r

\* RenderSQL.__init__ in safe mode: strip, then assert the lengths agree.
RenderSQLStrip(s) == CheckedLength(s, _strip_comments_and_string_literals(s))

Strip ==
    /\ pc = "input"
    /\ out' = RenderSQLStrip(sql)
    /\ pc' = "done"
    /\ UNCHANGED <<sql, arg, config, renderer, last, objects>>

MaskNext == Strip

SpecMask == MaskInit /\ [][MaskNext]_vars

(***************************************************************************)
(* Claims about the masking pass (SpecMask)                                *)
(***************************************************************************)
\* C1: for every input text over ordinary characters, newline, '-', '/',
\* '*', the single quote and the double quote, masking returns a text of
\* the same length as its input, and the safe-mode length assertion of
\* RenderSQL never fails.
C1_MaskReturnsSameLength ==
    pc = "done" => (out.err = "none" /\ Len(out.text) = Len(sql))

RECURSIVE RefScan(_, _, _)
\* The reference four-state scan of the masking contract: one pass, left to
\* right, over the offsets i of s; state is "normal", "line", "block" or
\* "string".  Delimiters are kept, everything inside a region is blanked.
RefScan(s, i, state) ==
    IF i >= Len(s) THEN <<>>
    ELSE IF state = "normal"
    THEN IF StartsWithAt(s, LineTok, i)
         THEN LineTok \o RefScan(s, i + 2, "line")
         ELSE IF StartsWithAt(s, BlockTok, i)
         THEN BlockTok \o RefScan(s, i + 2, "block")
         ELSE IF StartsWithAt(s, SQuote, i)
         THEN SQuote \o RefScan(s, i + 1, "string")
         ELSE <<s[i + 1]>> \o RefScan(s, i + 1, "normal")
    ELSE IF state = "line"
    THEN IF StartsWithAt(s, Newline, i)
         THEN Newline \o RefScan(s, i + 1, "normal")
         ELSE <<" ">> \o RefScan(s, i + 1, "line")
    ELSE IF state = "block"
    THEN IF StartsWithAt(s, BlockEnd, i)
         THEN BlockEnd \o RefScan(s, i + 2, "normal")
         ELSE <<" ">> \o RefScan(s, i + 1, "block")
    ELSE IF StartsWithAt(s, SQuote, i)
         THEN SQuote \o RefScan(s, i + 1, "normal")
         ELSE <<" ">> \o RefScan(s, i + 1, "string")

\* C2: masking returns, without any error, exactly the output of the
\* reference four-state scan (regions blanked, delimiters and outside text
\* unchanged in place, an unclosed region blanked to the end).
C2_MaskEqualsReferenceScan ==
    pc = "done" => (out.err = "none" /\ out.text = RefScan(sql, 0, "normal"))

(***************************************************************************)
(* 4.2 Paren balancer: _find_enclosing_paren                               *)
(***************************************************************************)
\* The offsets that sql[start::direction] visits, in order (Python's
\* extended slice with step 1 or -1 and no stop).
PyStepOffsets(n, start, direction) ==
    IF direction = 1
    THEN LET a == PyIndex(start, n)
         IN  [k \in 1..(n - a) |-> a + k - 1]
    ELSE LET b == IF start < 0 THEN start + n ELSE start
             a == IF b < 0 THEN -1 ELSE Min(b, n - 1)
         IN  [k \in 1..(a + 1) |-> a - k + 1]

RECURSIVE ParenLoop(_, _, _, _, _)
\* The for loop of _find_enclosing_paren over the sliced characters: the
\* value of i at the break, or -1 when the loop runs into its else clause.
ParenLoop(chars, i, parens_unmatched, paren_start, paren_end) ==
    IF i >= Len(chars) THEN -1
    ELSE LET char == chars[i + 1]
         IN  IF char = paren_start
             THEN ParenLoop(chars, i + 1, parens_unmatched + 1, paren_start, paren_end)
             ELSE IF char = paren_end
             THEN IF parens_unmatched # 0
                  THEN ParenLoop(chars, i + 1, parens_unmatched - 1,
                                 paren_start, paren_end)
                  ELSE i
             ELSE ParenLoop(chars, i + 1, parens_unmatched, paren_start, paren_end)

\* idx = paren_idx + (i + 1) * direction after the loop, or the exception of
\* its else clause
ParenIndex(paren_idx, direction, i) ==
    IF i = -1 THEN [err |-> "InvalidSQLError", idx |-> 0]
    ELSE [err |-> "none", idx |-> paren_idx + (i + 1) * direction]

\* the characters of s at the offsets offs, in that order
CharsAt(s, offs) == [k \in 1..Len(offs) |-> s[offs[k] + 1]]

\* _find_enclosing_paren(sql, paren_idx, direction): [err, idx]
_find_enclosing_paren(s, paren_idx, direction) ==
    ParenIndex(paren_idx, direction,
               ParenLoop(CharsAt(s, PyStepOffsets(Len(s), paren_idx + direction,
                                                  direction)),
                         0, 0,
                         IF direction = 1 THEN "(" ELSE ")",
                         IF direction = 1 THEN ")" ELSE "("))

(***************************************************************************)
(* Specification of the paren balancer alone                               *)
(***************************************************************************)
MaxParenLen == 5
ParenChars == {"(", ")", "x"}

ParenInit ==
    /\ pc = "input"
    /\ sql \in SeqsUpTo(ParenChars, MaxParenLen)
    /\ Len(sql) >= 1
    /\ arg \in [paren_idx : 0..(MaxParenLen - 1), direction : {1, -1}]
    /\ arg.paren_idx < Len(sql)
    /\ out = NoOut
    /\ config = DefaultConfig
    /\ renderer = NoRenderer
    /\ last = NoLast
    /\ NoObjects

FindEnclosingParen ==
    /\ pc = "input"
    /\ out' = _find_enclosing_paren(sql, arg.paren_idx, arg.direction)
    /\ pc' = "done"
    /\ UNCHANGED <<sql, arg, config, renderer, last, objects>>

ParenNext == FindEnclosingParen

SpecParen == ParenInit /\ [][ParenNext]_vars

(***************************************************************************)
(* Claims about the paren balancer (SpecParen)                             *)
(***************************************************************************)
\* Depth, at position p, of the parens strictly between index and p on the
\* scanned side: same-direction parens minus opposite-direction parens.
Between(index, p) == IF p > index THEN (index + 1)..(p - 1) ELSE (p + 1)..(index - 1)

SideDepth(s, index, p, direction) ==
    LET open == IF direction = 1 THEN "(" ELSE ")"
        close == IF direction = 1 THEN ")" ELSE "("
    IN  Cardinality({q \in Between(index, p) : s[q + 1] = open})
        - Cardinality({q \in Between(index, p) : s[q + 1] = close})

\* The positions strictly beyond index in the direction, inside the text.
Side(s, index, direction) ==
    IF direction = 1 THEN (index + 1)..(Len(s) - 1) ELSE 0..(index - 1)

\* The opposite parens on that side met at depth 0 with no earlier one.
Enclosing(s, index, direction) ==
    LET close == IF direction = 1 THEN ")" ELSE "("
        cand == {p \in Side(s, index, direction) :
                    /\ s[p + 1] = close
                    /\ SideDepth(s, index, p, direction) = 0
                    /\ \A q \in Between(index, p) :
                          s[q + 1] = close => SideDepth(s, index, q, direction) > 0}
    IN  cand

\* C10: the balancer scans only the positions strictly beyond index in the
\* given direction, never wrapping around the end of the text; it returns
\* the first opposite paren met at depth 0 and raises InvalidSQLError if and
\* only if there is none on that side; a returned position lies in the text
\* on the scanned side of index.
C10_ParenScansOneSideOnly ==
    pc = "done" =>
        LET cand == Enclosing(sql, arg.paren_idx, arg.direction)
        IN  /\ (out.err = "InvalidSQLError") <=> (cand = {})
            /\ out.err = "none" =>
                  /\ out.idx \in cand
                  /\ out.idx \in Side(sql, arg.paren_idx, arg.direction)

(***************************************************************************)
(* Regular expressions of the matchers                                     *)
(*                                                                         *)
(* Every pattern is matched as Python's re does: leftmost match, the       *)
(* alternatives in order, greedy repetition with backtracking, and         *)
(* re.IGNORECASE.  Offsets are 0-based; "no match" is -1.                  *)
(***************************************************************************)
\* None where a str is expected; None and the empty str are both falsy
None == <<>>

\* re.IGNORECASE folding of one character; the letters that fold are those
\* of the keywords of the patterns
UpperCase == {"A", "S", "F", "R", "O", "M", "W", "I", "T", "H", "N", "E", "C", "B", "L", "J"}
LowerOf(c) ==
    CASE c = "A" -> "a" [] c = "S" -> "s" [] c = "F" -> "f" [] c = "R" -> "r"
      [] c = "O" -> "o" [] c = "M" -> "m" [] c = "W" -> "w" [] c = "I" -> "i"
      [] c = "T" -> "t" [] c = "H" -> "h" [] c = "N" -> "n" [] c = "E" -> "e"
      [] c = "C" -> "c" [] c = "B" -> "b" [] c = "L" -> "l" [] c = "J" -> "j"
Lower(c) == IF c \in UpperCase THEN LowerOf(c) ELSE c

\* \s and \w
IsSpace(c) == c \in {" ", "\n", "\t"}
WordChars ==
    {"a", "b", "c", "d", "e", "f", "g", "h", "i", "j", "k", "l", "m",
     "n", "o", "p", "q", "r", "s", "t", "u", "v", "w", "x", "y", "z",
     "0", "1", "2", "3", "4", "5", "6", "7", "8", "9", "_"}
IsWord(c) == c \in WordChars \/ c \in UpperCase

\* the character at a 0-based offset, "" beyond the text
CharAt(s, i) == IF i >= 0 /\ i < Len(s) THEN s[i + 1] ELSE ""

\* a literal (re.escape'd) at offset i, ignoring case
LitAt(s, lit, i) ==
    /\ i >= 0
    /\ i + Len(lit) <= Len(s)
    /\ \A k \in 1..Len(lit) : Lower(s[i + k]) = Lower(lit[k])

\* the offset after the whitespace run that starts at i (\s* consumed greedily)
SkipSpaces(s, i) == Least({j \in i..Len(s) : j = Len(s) \/ ~IsSpace(CharAt(s, j))})

\* The pieces of a pattern.  Each takes the offset i where it is tried, -1
\* when what precedes it has not matched, and gives the offset after its
\* match, or -1.
\* a literal
Lit(s, lit, i) == IF i # -1 /\ LitAt(s, lit, i) THEN i + Len(lit) ELSE -1
\* \s*
Spaces0(s, i) == IF i = -1 THEN -1 ELSE SkipSpaces(s, i)
\* \s+
Spaces1(s, i) == IF i # -1 /\ IsSpace(CharAt(s, i)) THEN SkipSpaces(s, i) ELSE -1
\* (?!\w)
NotWord(s, i) == IF i # -1 /\ ~IsWord(CharAt(s, i)) THEN i ELSE -1
\* [\w/-]
WordSlashDash(s, i) ==
    IF i # -1 /\ (IsWord(CharAt(s, i)) \/ CharAt(s, i) \in {"/", "-"}) THEN i + 1 ELSE -1
\* a|b where a and b each hold the rest of the pattern: a is tried first
Or(a, b) == IF a # -1 THEN a ELSE b

\* lit(?!\w)
LitThenBoundary(s, lit, i) == NotWord(s, Lit(s, lit, i))

\* kw\s+
KeywordSpaces(s, kw, i) == Spaces1(s, Lit(s, kw, i))

\* (as\s+)?ALIAS(?!\w): the optional group is tried first; on failure the
\* alias is tried at i itself.
OptAsAlias(s, alias, i) ==
    Or(LitThenBoundary(s, alias, KeywordSpaces(s, <<"a", "s">>, i)),
       LitThenBoundary(s, alias, i))

\* as, followed by \s*\( when then_paren
AsTail(s, i, then_paren) ==
    IF then_paren THEN Lit(s, <<"(">>, Spaces0(s, Lit(s, <<"a", "s">>, i)))
    ELSE Lit(s, <<"a", "s">>, i)

\* The first alternative of (?:\s*\(.*\)\s*|\s+) from the '(' at q on, and
\* the rest of the pattern: .* is greedy and does not cross a newline, so
\* of the ')' that let the rest match the last one is taken.
Closers(s, q, then_paren) ==
    {c \in (q + 1)..(Len(s) - 1) :
        /\ CharAt(s, q) = "("
        /\ CharAt(s, c) = ")"
        /\ \A d \in (q + 1)..(c - 1) : CharAt(s, d) # "\n"
        /\ AsTail(s, SkipSpaces(s, c + 1), then_paren) # -1}
AfterCloser(s, closers, then_paren) ==
    IF closers = {} THEN -1
    ELSE AsTail(s, SkipSpaces(s, Greatest(closers) + 1), then_paren)
ParenColsThenAs(s, q, then_paren) ==
    IF q = -1 THEN -1 ELSE AfterCloser(s, Closers(s, q, then_paren), then_paren)

\* (?:\s*\(.*\)\s*|\s+)as at p, followed by \s*\( when then_paren.  The
\* second alternative is tried only when the first fails for every ')'.
ColsThenAs(s, p, then_paren) ==
    Or(ParenColsThenAs(s, Spaces0(s, p), then_paren),
       AsTail(s, Spaces1(s, p), then_paren))

\* \)\s*(as\s+)?ALIAS(?!\w) at i   (Renderer.subquery)
SubqueryAt(s, alias, i) == OptAsAlias(s, alias, Spaces0(s, Lit(s, <<")">>, i)))

\* (?:with\s+|,\s*)ALIAS(?:\s*\(.*\)\s*|\s+)as\s*\( at i   (Renderer.cte)
CteAt(s, alias, i) ==
    ColsThenAs(s,
               Lit(s, alias, Or(KeywordSpaces(s, <<"w", "i", "t", "h">>, i), Spaces0(s, Lit(s, <<",">>, i)))),
               TRUE)

\* (?:\s*\(|\s+[\w/-])
ParenOrWord(s, p) == Or(Lit(s, <<"(">>, Spaces0(s, p)), WordSlashDash(s, Spaces1(s, p)))

\* insert\s+into\s+TABLE(?:\s*\(|\s+[\w/-]) at i   (Renderer.insert_into)
InsertIntoAt(s, table, i) ==
    ParenOrWord(s, Lit(s, table, KeywordSpaces(s, <<"i", "n", "t", "o">>, KeywordSpaces(s, <<"i", "n", "s", "e", "r", "t">>, i))))

\* create\s+table\s+TABLE(?:\s*\(.*\)\s*|\s+)as at i  (Renderer.create_table_as)
CreateTableAsAt(s, table, i) ==
    ColsThenAs(s,
               Lit(s, table, KeywordSpaces(s, <<"t", "a", "b", "l", "e">>, KeywordSpaces(s, <<"c", "r", "e", "a", "t", "e">>, i))),
               FALSE)

\* (?P<pre>(from|join)\s+) at i: the end offset of the group pre, or -1
PreAt(s, i) == Or(KeywordSpaces(s, <<"f", "r", "o", "m">>, i), KeywordSpaces(s, <<"j", "o", "i", "n">>, i))

\* (?P<pre>(from|join)\s+)TABLE(?!\w), or with an alias
\* (?P<pre>(from|join)\s+)TABLE\s+(as\s+)?ALIAS(?!\w), at i   (Renderer.table)
TableAt(s, table, alias, i) ==
    IF alias = None THEN LitThenBoundary(s, table, PreAt(s, i))
    ELSE OptAsAlias(s, alias, Spaces1(s, Lit(s, table, PreAt(s, i))))

\* The end offset of the match of pattern pat that starts at i, or -1.
MatchAt(s, pat, i) ==
    CASE pat.kind = "subquery" -> SubqueryAt(s, pat.alias, i)
      [] pat.kind = "cte" -> CteAt(s, pat.alias, i)
      [] pat.kind = "insert_into" -> InsertIntoAt(s, pat.table, i)
      [] pat.kind = "create_table_as" -> CreateTableAsAt(s, pat.table, i)
      [] pat.kind = "table" -> TableAt(s, pat.table, pat.alias, i)

\* The spans <<start, end>> of the matches of pat that start at pos or later.
SpansFrom(s, pat, pos) ==
    {sp \in {<<i, MatchAt(s, pat, i)>> : i \in pos..(Len(s) - 1)} : sp[2] # -1}

RECURSIVE FindIter(_, _, _)
\* the leftmost of the spans, then the matches that follow it
LeftmostThenRest(s, pat, sp) == <<sp>> \o FindIter(s, pat, sp[2])
FirstSpan(s, pat, spans) ==
    IF spans = {} THEN <<>>
    ELSE LeftmostThenRest(s, pat, CHOOSE sp \in spans : \A o \in spans : sp[1] <= o[1])

\* list(re.finditer(pattern, s)): the spans <<start, end>> of the
\* non-overlapping matches, leftmost first, searching on from each match end.
FindIter(s, pat, pos) == FirstSpan(s, pat, SpansFrom(s, pat, pos))

(***************************************************************************)
(* 3. Views, RenderSQL and the Renderer                                    *)
(***************************************************************************)
\* pgmock.config.get_safe_mode() and get_replace_new_patch_aliases()
get_safe_mode == config.safe_mode
get_replace_new_patch_aliases == config.replace_new_patch_aliases

\* slice(start, stop)
Slice(start, stop) == [start |-> start, stop |-> stop]

\* PatchParams(patch_alias, select_all_from, orig_alias); None and the empty
\* string are both falsy and are both the empty sequence here.
PatchParams(patch_alias, select_all_from, orig_alias) ==
    [patch_alias |-> patch_alias,
     select_all_from |-> select_all_from,
     orig_alias |-> IF orig_alias # None THEN orig_alias ELSE patch_alias]

DefaultPatchParams == PatchParams(None, FALSE, None)

\* View(bounds): no patch range.  A View that has no patch keeps a zero
\* slice in the field and has_patch = FALSE.
ViewNoPatch(bounds) ==
    [bounds |-> bounds, has_patch |-> FALSE, patch |-> Slice(0, 0),
     patch_params |-> DefaultPatchParams]

\* View(bounds, patch=patch, patch_params=patch_params); a slice object is
\* always truthy, so the patch is kept whatever its offsets are.
View(bounds, patch, patch_params) ==
    [bounds |-> bounds, has_patch |-> TRUE, patch |-> patch,
     patch_params |-> patch_params]

\* View.from_offset
from_offset(v, offset) ==
    [v EXCEPT !.bounds = Slice(v.bounds.start + offset, v.bounds.stop + offset),
              !.patch = IF v.has_patch
                        THEN Slice(v.patch.start + offset, v.patch.stop + offset)
                        ELSE v.patch]

\* A Renderer that could not be built or returned: the exception raised.
Raise(kind, n) ==
    [err |-> kind, n |-> n, raw_sql |-> <<>>, search_sql |-> <<>>, views |-> <<>>]

\* RenderSQL(sql) in safe mode, given the stripped text r
StrippedRenderSQL(s, r) ==
    IF r.err # "none" THEN [err |-> r.err, raw_sql |-> s, search_sql |-> s]
    ELSE [err |-> "none", raw_sql |-> s,
          search_sql |-> IF r.text # <<>> THEN r.text ELSE s]

\* RenderSQL(sql) when get_safe_mode() returns safe_mode
RenderSQLIn(s, safe_mode) ==
    IF ~safe_mode THEN [err |-> "none", raw_sql |-> s, search_sql |-> s]
    ELSE StrippedRenderSQL(s, RenderSQLStrip(s))

\* RenderSQL(sql): [err, raw_sql, search_sql]
RenderSQL(s) == RenderSQLIn(s, get_safe_mode)

\* a Renderer.__init__ without its loop over adjacent views
NestedViewsNotLookedFor(views) == FALSE

\* The loop of Renderer.__init__ over adjacent views.
NestedViews(views) ==
    \E i \in 2..Len(views) : views[i].bounds.start < views[i - 1].bounds.stop

\* Renderer(rendering_sql, views) with rendering_sql a RenderSQL
RendererOf(rs, views) ==
    IF rs.err # "none" THEN Raise(rs.err, 0)
    ELSE IF NestedViews(views) THEN Raise("NestedMatchError", 0)
    ELSE [err |-> "none", n |-> 0, raw_sql |-> rs.raw_sql,
          search_sql |-> rs.search_sql, views |-> views]

\* Renderer(sql, views) with sql a str: a new RenderSQL is built from it
RendererOfStr(s, views) == RendererOf(RenderSQL(s), views)

\* Renderer(sql): one view over the whole text
Renderer(s) == RendererOfStr(s, <<ViewNoPatch(Slice(0, Len(s)))>>)

\* the RenderSQL a Renderer holds (self.rendering_sql)
rendering_sql(r) == [err |-> "none", raw_sql |-> r.raw_sql, search_sql |-> r.search_sql]

\* Renderer.view raises MultipleMatchError unless there is exactly one view
HasOneView(r) == Len(r.views) = 1
view(r) == r.views[1]

\* Renderer.sql_view and Renderer.search_view, for a Renderer with one view
sql_view(r) == PySlice(r.raw_sql, view(r).bounds.start, view(r).bounds.stop)
search_view(r) == PySlice(r.search_sql, view(r).bounds.start, view(r).bounds.stop)

\* str.find(ch, start) for a one-character needle and start >= 0
FirstOrNone(at) == IF at = {} THEN -1 ELSE Least(at)
Find(s, ch, start) == FirstOrNone({i \in start..(Len(s) - 1) : s[i + 1] = ch})

\* _get_end_statement
EndOr(end_of_statement_idx, n) ==
    IF end_of_statement_idx = -1 THEN n ELSE end_of_statement_idx
_get_end_statement(s, start) == EndOr(Find(s, ";", start), Len(s))

RECURSIVE SplitOn(_, _)
\* the part before the separator at offset i, then the split of the rest
SplitHere(s, sep, i) == <<PyUpTo(s, i)>> \o SplitOn(PyFrom(s, i + Len(sep)), sep)
SplitAtAny(s, sep, at) == IF at = {} THEN <<s>> ELSE SplitHere(s, sep, Least(at))

\* str.split(sep) for a non-empty separator: the parts, in order
SplitOn(s, sep) ==
    SplitAtAny(s, sep, {i \in 0..(Len(s) - Len(sep)) : StartsWithAt(s, sep, i)})

RECURSIVE SumLen(_)
\* sum(len(part) for part in parts)
SumLen(parts) == IF parts = <<>> THEN 0 ELSE Len(Head(parts)) + SumLen(Tail(parts))

(***************************************************************************)
(* 4.3 The matchers of the Renderer.  Each takes a Renderer r that was     *)
(* built without error and gives the Renderer returned, or the exception.  *)
(***************************************************************************)
Pgmock == <<"p", "g", "m", "o", "c", "k">>

\* a stmt_start_idx that leaves out the ';' of the statements before start
StatementStartWithoutSemicolons(parts, start) == SumLen(SubSeq(parts, 1, start))

\* stmt_start_idx: the lengths of the statements before start and their ';'
StatementStart(parts, start) == SumLen(SubSeq(parts, 1, start)) + start

\* stmt_end_idx: the statements start..stop-1 and the ';' between them
StatementEnd(parts, start, stop) ==
    StatementStart(parts, start) + SumLen(SubSeq(parts, start + 1, stop))
    + (stop - start - 1)

\* Renderer.statement once the search view is split on ';'
StatementOf(r, parts, start, stop) ==
    IF stop < start \/ start < 0 THEN Raise("AssertionError", 0)
    ELSE IF start >= Len(parts) \/ stop > Len(parts)
    THEN Raise("StatementParseError", Len(parts))
    ELSE RendererOf(rendering_sql(r),
                    <<from_offset(ViewNoPatch(Slice(StatementStart(parts, start),
                                                    StatementEnd(parts, start, stop))),
                                  view(r).bounds.start)>>)

\* Renderer.statement(start, end); end = None and end = 0 are both falsy (0)
statement(r, start, end) ==
    IF ~HasOneView(r) THEN Raise("MultipleMatchError", 0)
    ELSE StatementOf(r, SplitOn(search_view(r), <<";">>), start,
                     IF end # 0 THEN end ELSE start + 1)

\* The views a matcher builds from its matches: built[k] is [err, view];
\* a failure is the exception of the whole matcher.
ViewsOrError(r, built) ==
    IF \E k \in 1..Len(built) : built[k].err # "none"
    THEN Raise("InvalidSQLError", 0)
    ELSE RendererOf(rendering_sql(r), [k \in 1..Len(built) |-> built[k].view])

\* a view that could not be built
NoView(err) == [err |-> err, view |-> ViewNoPatch(Slice(0, 0))]

\* the body of the loop of Renderer.subquery for one match, given left_paren
SubqueryViewAt(r, alias, right_paren, alias_end, left_paren) ==
    IF left_paren.err # "none" THEN NoView(left_paren.err)
    ELSE [err |-> "none",
          view |-> from_offset(View(Slice(left_paren.idx + 1, right_paren),
                                    Slice(left_paren.idx, alias_end),
                                    PatchParams(alias, FALSE, None)),
                               view(r).bounds.start)]

\* the body of the loop of Renderer.subquery for one match
SubqueryView(r, s, alias, match) ==
    SubqueryViewAt(r, alias, match[1], match[2], _find_enclosing_paren(s, match[1], -1))

\* Renderer.subquery once the matches in the search view s are known
SubqueryViews(r, s, alias, matches) ==
    IF matches = <<>> THEN Raise("NoMatchError", 0)
    ELSE ViewsOrError(r, [k \in 1..Len(matches) |->
                             SubqueryView(r, s, alias, matches[k])])
SubqueryIn(r, s, alias) ==
    SubqueryViews(r, s, alias, FindIter(s, [kind |-> "subquery", alias |-> alias], 0))

\* Renderer.subquery(alias)
subquery(r, alias) ==
    IF ~HasOneView(r) THEN Raise("MultipleMatchError", 0)
    ELSE SubqueryIn(r, search_view(r), alias)

\* the body of the loop of Renderer.cte for one match, given right_paren
CteViewAt(r, left_paren, right_paren) ==
    IF right_paren.err # "none" THEN NoView(right_paren.err)
    ELSE [err |-> "none",
          view |-> from_offset(View(Slice(left_paren + 1, right_paren.idx),
                                    Slice(left_paren + 1, right_paren.idx),
                                    PatchParams(Pgmock, TRUE, None)),
                               view(r).bounds.start)]

\* the body of the loop of Renderer.cte for one match
CteView(r, s, match) ==
    CteViewAt(r, match[2] - 1, _find_enclosing_paren(s, match[2] - 1, 1))

\* Renderer.cte once the matches in the search view s are known
CteViews(r, s, matches) ==
    IF matches = <<>> THEN Raise("NoMatchError", 0)
    ELSE ViewsOrError(r, [k \in 1..Len(matches) |-> CteView(r, s, matches[k])])
CteIn(r, s, alias) ==
    CteViews(r, s, FindIter(s, [kind |-> "cte", alias |-> alias], 0))

\* Renderer.cte(alias)
cte(r, alias) ==
    IF ~HasOneView(r) THEN Raise("MultipleMatchError", 0)
    ELSE CteIn(r, search_view(r), alias)

\* str.strip() of a slice is non-empty
HasNonSpace(s) == \E k \in 1..Len(s) : ~IsSpace(s[k])

\* patch_start of Renderer.insert_into: after the column list when there is
\* one and something follows it
InsertPatchStart(s, insert_end, end_idx, right_paren) ==
    IF CharAt(s, insert_end) = "(" /\ HasNonSpace(PySlice(s, right_paren, end_idx))
    THEN right_paren ELSE insert_end

\* the body of the loop of Renderer.insert_into for one match, given end_idx
\* and the result of _find_enclosing_paren
InsertIntoViewAt(r, s, insert_start, insert_end, end_idx, found) ==
    IF CharAt(s, insert_end) = "(" /\ found.err # "none" THEN NoView(found.err)
    ELSE [err |-> "none",
          view |-> from_offset(View(Slice(insert_start, end_idx),
                                    Slice(InsertPatchStart(s, insert_end, end_idx,
                                                           found.idx + 1),
                                          end_idx),
                                    DefaultPatchParams),
                               view(r).bounds.start)]

\* the body of the loop of Renderer.insert_into for one match
InsertIntoView(r, s, match) ==
    InsertIntoViewAt(r, s, match[1], match[2] - 1,
                     _get_end_statement(s, match[2] - 1),
                     _find_enclosing_paren(s, match[2] - 1, 1))

\* Renderer.insert_into once the matches in the search view s are known
InsertIntoViews(r, s, matches) ==
    IF matches = <<>> THEN Raise("NoMatchError", 0)
    ELSE ViewsOrError(r, [k \in 1..Len(matches) |-> InsertIntoView(r, s, matches[k])])
InsertIntoIn(r, s, table) ==
    InsertIntoViews(r, s, FindIter(s, [kind |-> "insert_into", table |-> table], 0))

\* Renderer.insert_into(table)
insert_into(r, table) ==
    IF ~HasOneView(r) THEN Raise("MultipleMatchError", 0)
    ELSE InsertIntoIn(r, search_view(r), table)

\* the body of the loop of Renderer.create_table_as for one match, given
\* end_idx
CreateTableAsViewAt(r, create_start, cta_end, end_idx) ==
    [err |-> "none",
     view |-> from_offset(View(Slice(create_start, end_idx),
                               Slice(cta_end, end_idx),
                               PatchParams(Pgmock, TRUE, None)),
                          view(r).bounds.start)]

\* the body of the loop of Renderer.create_table_as for one match
CreateTableAsView(r, s, match) ==
    CreateTableAsViewAt(r, match[1], match[2], _get_end_statement(s, match[1]))

\* Renderer.create_table_as once the matches in the search view s are known
CreateTableAsViews(r, s, matches) ==
    IF matches = <<>> THEN Raise("NoMatchError", 0)
    ELSE ViewsOrError(r, [k \in 1..Len(matches) |->
                             CreateTableAsView(r, s, matches[k])])
CreateTableAsIn(r, s, table) ==
    CreateTableAsViews(r, s,
                       FindIter(s, [kind |-> "create_table_as", table |-> table], 0))

\* Renderer.create_table_as(table)
create_table_as(r, table) ==
    IF ~HasOneView(r) THEN Raise("MultipleMatchError", 0)
    ELSE CreateTableAsIn(r, search_view(r), table)

\* parts[1] of a split when it has more than one part, else the whole
SecondPartOr(parts, whole) == IF Len(parts) = 1 THEN whole ELSE parts[2]

\* table if '.' not in table else table.split('.')[1]
WithoutSchema(table) == SecondPartOr(SplitOn(table, <<".">>), table)

\* the body of the loop of Renderer.table for one match: the view is built
\* from the offsets of the match as they are, no offset is added
TableViewAt(bounds, table, alias) ==
    View(bounds, bounds,
         PatchParams(IF alias # None THEN alias ELSE WithoutSchema(table),
                     FALSE,
                     IF alias # None THEN alias ELSE table))
TableView(s, table, alias, match) ==
    TableViewAt(Slice(PreAt(s, match[1]), match[2]), table, alias)

\* Renderer.table once the matches in the search view s are known: the
\* Renderer returned is built from the search view (a str), not from
\* self.rendering_sql
TableViews(s, name, alias, matches) ==
    IF matches = <<>> THEN Raise("NoMatchError", 0)
    ELSE RendererOfStr(s, [k \in 1..Len(matches) |->
                             TableView(s, name, alias, matches[k])])
TableIn(s, name, alias) ==
    TableViews(s, name, alias,
               FindIter(s, [kind |-> "table", table |-> name, alias |-> alias], 0))

\* Renderer.table(table, alias)
table(r, name, alias) ==
    IF ~HasOneView(r) THEN Raise("MultipleMatchError", 0)
    ELSE TableIn(search_view(r), name, alias)

\* Renderer.body()
body(r) ==
    IF ~HasOneView(r) THEN Raise("MultipleMatchError", 0)
    ELSE IF view(r).has_patch
    THEN RendererOf(rendering_sql(r),
                    <<View(view(r).patch, view(r).patch, DefaultPatchParams)>>)
    ELSE Raise("NoMatchError", 0)

\* a list[i] that counts from the end of the list
ListIndexFromEnd(n, i) ==
    IF i >= 0 /\ i < n THEN n - i ELSE IF i < 0 /\ i + n >= 0 THEN i + n + 1 ELSE 0

\* list[i] of Python for an integer index: the 1-based position, 0 if the
\* index is out of range
ListIndex(n, i) ==
    IF i >= 0 /\ i < n THEN i + 1 ELSE IF i < 0 /\ i + n >= 0 THEN i + n + 1 ELSE 0

\* Renderer.__getitem__ for an integer index, given its position in the list
ViewAt(r, position) ==
    IF position = 0 THEN Raise("IndexError", 0)
    ELSE RendererOf(rendering_sql(r), <<r.views[position]>>)

\* Renderer.__getitem__(index); index is [kind |-> "int", i] or
\* [kind |-> "slice", start, stop, to_end] (to_end: the stop is None)
getitem(r, index) ==
    IF index.kind = "int" THEN ViewAt(r, ListIndex(Len(r.views), index.i))
    ELSE RendererOf(rendering_sql(r),
                    PySlice(r.views, index.start,
                            IF index.to_end THEN Len(r.views) ELSE index.stop))

(***************************************************************************)
(* 4.4 Serialisation of the replacement literal                            *)
(*                                                                         *)
(* A value is [cls, text, flag]: its class, the text that str(), isoformat *)
(* or json.dumps gives for it, and a flag (the truth of a bool, the        *)
(* presence of tzinfo on a datetime or time).                              *)
(***************************************************************************)
RECURSIVE Join(_, _)
\* sep.join(parts)
Join(parts, sep) ==
    IF parts = <<>> THEN <<>>
    ELSE IF Len(parts) = 1 THEN parts[1]
    ELSE parts[1] \o sep \o Join(Tail(parts), sep)

RECURSIVE DoubleQuotes(_)
\* v.replace("'", "''")
DoubleQuotes(s) ==
    IF s = <<>> THEN <<>>
    ELSE (IF Head(s) = "'" THEN <<"'", "'">> ELSE <<Head(s)>>) \o DoubleQuotes(Tail(s))

PyNone == [cls |-> "NoneType", text |-> <<>>, flag |-> FALSE]
PyInt(text) == [cls |-> "int", text |-> text, flag |-> FALSE]

\* the classes of PG_VALUE_SERIALIZERS and of PG_TYPES
SerializableClasses ==
    {"bool", "str", "int", "float", "dict", "datetime", "date", "time", "UUID"}
TypedClasses == {"dict", "datetime", "date", "time", "UUID"}

\* PG_TYPES[val.__class__](val)
PgType(val) ==
    CASE val.cls = "dict" -> <<"J", "S", "O", "N">>
      [] val.cls = "datetime" -> IF val.flag THEN <<"T", "I", "M", "E", "S", "T", "A", "M", "P", "T", "Z">> ELSE <<"T", "I", "M", "E", "S", "T", "A", "M", "P">>
      [] val.cls = "date" -> <<"D", "A", "T", "E">>
      [] val.cls = "time" -> IF val.flag THEN <<"T", "I", "M", "E", "T", "Z">> ELSE <<"T", "I", "M", "E">>
      [] val.cls = "UUID" -> <<"U", "U", "I", "D">>

\* PG_VALUE_SERIALIZERS[val.__class__](val)
PgValue(val) ==
    CASE val.cls = "bool" -> IF val.flag THEN <<"T", "R", "U", "E">> ELSE <<"F", "A", "L", "S", "E">>
      [] val.cls = "str" -> <<"'">> \o DoubleQuotes(val.text) \o <<"'">>
      [] val.cls \in {"int", "float"} -> val.text
      [] val.cls = "dict" -> <<"'">> \o DoubleQuotes(val.text) \o <<"'">>
      [] val.cls \in {"datetime", "date", "time", "UUID"} ->
            <<"'">> \o val.text \o <<"'">>

\* the serialized value with its cast, if it has a type
WithType(serialized, typ) ==
    [err |-> "none",
     text |-> IF typ # None THEN serialized \o <<":", ":">> \o typ ELSE serialized]

\* a _to_sql_value that leaves None without the type of its column
_to_sql_value_null_uncast(val, col_type) ==
    IF val.cls \notin SerializableClasses /\ val.cls # "NoneType"
    THEN [err |-> "ValueSerializationError", text |-> <<>>]
    ELSE IF val.cls = "NoneType" THEN WithType(<<"n", "u", "l", "l">>, None)
    ELSE WithType(PgValue(val),
                  IF col_type = None /\ val.cls \in TypedClasses
                  THEN PgType(val) ELSE col_type)

\* _to_sql_value(val, col_type): [err, text]; col_type None is the empty text
_to_sql_value(val, col_type) ==
    IF val.cls \notin SerializableClasses /\ val.cls # "NoneType"
    THEN [err |-> "ValueSerializationError", text |-> <<>>]
    ELSE WithType(IF val.cls \in SerializableClasses THEN PgValue(val) ELSE <<"n", "u", "l", "l">>,
                  IF col_type = None /\ val.cls \in TypedClasses
                  THEN PgType(val) ELSE col_type)

\* row + [None] * (len(col_types) - len(row)) when col_types is given
Padded(row, col_types) ==
    IF col_types # <<>> /\ Len(col_types) > Len(row)
    THEN row \o [k \in 1..(Len(col_types) - Len(row)) |-> PyNone]
    ELSE row

\* the values of a padded row, serialized: zip stops at the shorter list
SerializedRow(padded, col_types) ==
    IF col_types # <<>>
    THEN [k \in 1..Min(Len(padded), Len(col_types)) |->
             _to_sql_value(padded[k], col_types[k])]
    ELSE [k \in 1..Len(padded) |-> _to_sql_value(padded[k], None)]

\* '(' + ','.join(...) + ')'
Tuple(serialized) ==
    IF \E k \in 1..Len(serialized) : serialized[k].err # "none"
    THEN [err |-> "ValueSerializationError", text |-> <<>>]
    ELSE [err |-> "none",
          text |-> <<"(">> \o Join([k \in 1..Len(serialized) |-> serialized[k].text], <<",">>)
                   \o <<")">>]

\* _row_to_sql_values(row, col_types): [err, text]
_row_to_sql_values(row, col_types) ==
    Tuple(SerializedRow(Padded(row, col_types), col_types))

\* None if '::' not in col else col.split('::')[1]
ColType(col) == SecondPartOr(SplitOn(col, <<":", ":">>), None)

\* col if '::' not in col else col.split('::')[0]
ColName(col) == SplitOn(col, <<":", ":">>)[1]

\* a VALUES list that never gets its LIMIT 0
ListedWithoutLimit(tuples, empty_values) ==
    <<"V", "A", "L", "U", "E", "S", " ">> \o Join([k \in 1..Len(tuples) |-> tuples[k].text], <<",">>)

\* 'VALUES ' + ','.join(...) of the row tuples, with LIMIT 0 for no rows
Listed(tuples, empty_values) ==
    <<"V", "A", "L", "U", "E", "S", " ">> \o Join([k \in 1..Len(tuples) |-> tuples[k].text], <<",">>)
    \o (IF empty_values THEN <<" ", "L", "I", "M", "I", "T", " ", "0">> ELSE <<>>)

\* '"{}"'.format(col_name) for each column name
Escaped(col_names) == [k \in 1..Len(col_names) |-> <<"\"">> \o col_names[k] \o <<"\"">>]

\* '({values}) AS {alias}({cols})' when an alias is given
Aliased(values, alias, col_names) ==
    IF alias # None
    THEN <<"(">> \o values \o <<")", " ", "A", "S", " ">> \o alias \o <<"(">> \o Join(Escaped(col_names), <<",">>) \o <<")">>
    ELSE values

\* 'SELECT * FROM {values}' when select_all_from
Selected(values, select_all_from) ==
    IF select_all_from THEN <<"S", "E", "L", "E", "C", "T", " ", "*", " ", "F", "R", "O", "M", " ">> \o values ELSE values

\* the literal of _gen_values from the serialized row tuples
ValuesOf(tuples, empty_values, cols, alias, select_all_from) ==
    IF \E k \in 1..Len(tuples) : tuples[k].err # "none"
    THEN [err |-> "ValueSerializationError", text |-> <<>>]
    ELSE [err |-> "none",
          text |-> Selected(Aliased(Listed(tuples, empty_values), alias,
                                    [k \in 1..Len(cols) |-> ColName(cols[k])]),
                            select_all_from)]

\* the tuples of the rows; an empty dataset has one row of nulls
RowTuples(rows, col_types) ==
    [k \in 1..Len(rows) |-> _row_to_sql_values(rows[k], col_types)]

\* _gen_values(rows, cols, alias, select_all_from) for rows given as
\* sequences: [err, text]
_gen_values(rows, cols, alias, select_all_from) ==
    ValuesOf(RowTuples(IF rows = <<>> THEN <<<<>>>> ELSE rows,
                       [k \in 1..Len(cols) |-> ColType(cols[k])]),
             rows = <<>>, cols, alias, select_all_from)

(***************************************************************************)
(* 5. The deferred operation chain and its replay                          *)
(***************************************************************************)
\* getattr(renderer, render_method.name)(*args, **kwargs) for the methods
\* of a Selector
ApplySelectorMethod(r, m) ==
    CASE m.name = "statement" -> statement(r, m.start, m.end)
      [] m.name = "subquery" -> subquery(r, m.alias)
      [] m.name = "cte" -> cte(r, m.alias)
      [] m.name = "insert_into" -> insert_into(r, m.table)
      [] m.name = "create_table_as" -> create_table_as(r, m.table)
      [] m.name = "table" -> table(r, m.table, m.alias)
      [] m.name = "body" -> body(r)
      [] m.name = "__getitem__" -> getitem(r, m.index)

RECURSIVE ReplayChain(_, _)
\* the for loop of Renderable.render: an exception ends it
ReplayChain(r, chain) ==
    IF chain = <<>> \/ r.err # "none" THEN r
    ELSE ReplayChain(ApplySelectorMethod(r, Head(chain)), Tail(chain))

\* Renderable.render(sql) of a Selector with the given chain
SelectorRender(chain, s) == ReplayChain(Renderer(s), chain)

(***************************************************************************)
(* 4.4 Renderer.patch                                                      *)
(***************************************************************************)
\* \b at offset i of s
WordBoundaryAt(s, i) == IsWord(CharAt(s, i - 1)) # IsWord(CharAt(s, i))

\* r'\b%s\.' % re.escape(orig_alias) at offset i (case is not ignored)
AliasRefAt(s, orig_alias, i) ==
    /\ WordBoundaryAt(s, i)
    /\ StartsWithAt(s, orig_alias \o <<".">>, i)

RECURSIVE ReSubAlias(_, _, _, _)
\* the text up to the first match at or after pos replaced, then the rest
ReSubFirst(s, orig_alias, replace_alias, pos, at) ==
    IF at = {} THEN PyFrom(s, pos)
    ELSE PySlice(s, pos, Least(at)) \o replace_alias
         \o ReSubAlias(s, orig_alias, replace_alias, Least(at) + Len(orig_alias) + 1)

\* re.sub(search, replace_alias, patched_sql) from offset pos on
ReSubAlias(s, orig_alias, replace_alias, pos) ==
    ReSubFirst(s, orig_alias, replace_alias, pos,
               {i \in pos..(Len(s) - 1) : AliasRefAt(s, orig_alias, i)})

\* a replacement that is not padded: patch_alias + '.'
ReplaceAliasUnpadded(patch_alias, orig_alias) == patch_alias \o <<".">>

\* patch_alias.rjust(len(orig_alias)) + '.'
ReplaceAlias(patch_alias, orig_alias) ==
    Spaces(Max(Len(orig_alias) - Len(patch_alias), 0)) \o patch_alias \o <<".">>

\* a check_is_patchable that also refuses an empty patch range
check_is_patchable_nonempty(v, cols) ==
    IF ~v.has_patch \/ v.patch.start = v.patch.stop THEN "UnpatchableError"
    ELSE IF v.patch_params.patch_alias # None /\ cols = <<>>
    THEN "ColumnsNeededForPatchError"
    ELSE "none"

\* View.check_is_patchable(cols): the exception raised, or "none"
check_is_patchable(v, cols) ==
    IF ~v.has_patch THEN "UnpatchableError"
    ELSE IF v.patch_params.patch_alias # None /\ cols = <<>>
    THEN "ColumnsNeededForPatchError"
    ELSE "none"

\* The slice of the full text that the loop of patch replaces for a view.
PatchSlice(r, rendered_view, has_selector) ==
    IF has_selector
    THEN Slice(view(r).bounds.start + rendered_view.patch.start,
               view(r).bounds.start + rendered_view.patch.stop)
    ELSE rendered_view.patch

\* The text after one replacement at patch, given the running adjustment.
Spliced(patched_sql, patch, adjustment, values) ==
    PyUpTo(patched_sql, patch.start - adjustment) \o <<" ">> \o values
    \o PyFrom(patched_sql, patch.stop - adjustment)

\* The adjustment after one replacement.
Adjusted(adjustment, patch, values) ==
    adjustment + (patch.stop - patch.start - (Len(values) + 1))

\* whether the aliases of a view are to be rewritten in the patched text
RewritesAlias(patch_args) ==
    /\ get_replace_new_patch_aliases
    /\ patch_args.patch_alias # None
    /\ patch_args.orig_alias # patch_args.patch_alias

\* re.sub of the alias references in the patched text, when it applies
Replaced(spliced, patch_args) ==
    IF RewritesAlias(patch_args)
    THEN ReSubAlias(spliced, patch_args.orig_alias,
                    ReplaceAlias(patch_args.patch_alias, patch_args.orig_alias), 0)
    ELSE spliced

RECURSIVE PatchLoop(_, _, _, _, _, _, _)
\* One iteration of the loop for rendered_view once its values are
\* generated and its patch slice is known.
PatchView(r, todo, has_selector, rows, cols, adjustment, patched_sql, values, patch) ==
    IF values.err # "none"
    THEN [err |-> values.err, adjustment |-> adjustment, patched_sql |-> patched_sql]
    ELSE IF /\ RewritesAlias(Head(todo).patch_params)
            /\ Len(Head(todo).patch_params.orig_alias)
                  < Len(Head(todo).patch_params.patch_alias)
    THEN [err |-> "AssertionError", adjustment |-> adjustment,
          patched_sql |-> patched_sql]
    ELSE PatchLoop(r, Tail(todo), has_selector, rows, cols,
                   Adjusted(adjustment, patch, values.text),
                   Replaced(Spliced(patched_sql, patch, adjustment, values.text),
                            Head(todo).patch_params))

\* One iteration of the loop once check_is_patchable has answered.
PatchChecked(r, todo, has_selector, rows, cols, adjustment, patched_sql, checked) ==
    IF checked # "none"
    THEN [err |-> checked, adjustment |-> adjustment, patched_sql |-> patched_sql]
    ELSE PatchView(r, todo, has_selector, rows, cols, adjustment, patched_sql,
                   _gen_values(rows, cols, Head(todo).patch_params.patch_alias,
                               Head(todo).patch_params.select_all_from),
                   PatchSlice(r, Head(todo), has_selector))

\* The for loop of Renderer.patch over rendered.views, from the views still
\* to do, with its locals adjustment and patched_sql:
\* [err, adjustment, patched_sql].
PatchLoop(r, todo, has_selector, rows, cols, adjustment, patched_sql) ==
    IF todo = <<>>
    THEN [err |-> "none", adjustment |-> adjustment, patched_sql |-> patched_sql]
    ELSE PatchChecked(r, todo, has_selector, rows, cols, adjustment, patched_sql,
                      check_is_patchable(Head(todo), cols))

\* what patch rewrites: selector.render(self.sql_view) if selector else self
Rendered(r, selector) ==
    IF ~selector.given THEN r
    ELSE IF ~HasOneView(r) THEN Raise("MultipleMatchError", 0)
    ELSE SelectorRender(selector.chain, sql_view(r))

\* The Renderer that patch returns after its loop: self.view is read, and
\* its bounds are moved by the adjustment.
Patched(r, looped) ==
    IF looped.err # "none" THEN Raise(looped.err, 0)
    ELSE IF ~HasOneView(r) THEN Raise("MultipleMatchError", 0)
    ELSE RendererOfStr(looped.patched_sql,
                       <<ViewNoPatch(Slice(view(r).bounds.start,
                                           view(r).bounds.stop - looped.adjustment))>>)

\* Renderer.patch once the views to rewrite are rendered
PatchRendered(r, rendered, has_selector, rows, cols) ==
    IF rendered.err # "none" THEN rendered
    ELSE Patched(r, PatchLoop(r, rendered.views, has_selector, rows, cols, 0, r.raw_sql))

\* Renderer.patch(selector, rows, cols) without a side effect; selector is
\* [given, chain]
patch(r, selector, rows, cols) ==
    PatchRendered(r, Rendered(r, selector), selector.given, rows, cols)

\* getattr(renderer, render_method.name)(*args, **kwargs) for every method
ApplyMethod(r, m) ==
    IF m.name = "patch" THEN patch(r, m.selector, m.rows, m.cols)
    ELSE ApplySelectorMethod(r, m)

(***************************************************************************)
(* Specification of rendering: Renderable.render builds a Renderer over    *)
(* the query and applies render methods to it, one per step.               *)
(***************************************************************************)
MaxFrags == 3
MaxOps == 2
MaxStmt == 1
MaxIndex == 1

\* The pieces the query texts are made of.  "create table t as" at the end
\* of a statement has an empty patch range; followed by another piece it
\* has a body.
Fragments ==
    {<<"f", "r", "o", "m", " ", "t">>, <<";">>, <<"(">>, <<")", "b">>, <<"(", "x", ")", "b">>, <<"w", "i", "t", "h", " ", "b", " ", "a", "s", "(", "x", ")">>,
     <<"i", "n", "s", "e", "r", "t", " ", "i", "n", "t", "o", " ", "t", " ", "x">>, <<"c", "r", "e", "a", "t", "e", " ", "t", "a", "b", "l", "e", " ", "t", " ", "a", "s">>}

RECURSIVE Concat(_)
Concat(parts) == IF parts = <<>> THEN <<>> ELSE Head(parts) \o Concat(Tail(parts))

Queries == {Concat(parts) : parts \in SeqsUpTo(Fragments, MaxFrags)}

TableNames == {<<"t">>}
Aliases == {<<"b">>}

\* The render methods a step can apply, as RenderMethod records.
StatementMethods ==
    {[name |-> "statement", start |-> i, end |-> j] : i \in 0..MaxStmt, j \in 0..(MaxStmt + 1)}
SubqueryMethods == {[name |-> "subquery", alias |-> a] : a \in Aliases}
CteMethods == {[name |-> "cte", alias |-> a] : a \in Aliases}
InsertIntoMethods == {[name |-> "insert_into", table |-> t] : t \in TableNames}
CreateTableAsMethods == {[name |-> "create_table_as", table |-> t] : t \in TableNames}
TableMethods ==
    {[name |-> "table", table |-> t, alias |-> a] : t \in TableNames, a \in Aliases \cup {None}}
BodyMethods == {[name |-> "body"]}
Indexes ==
    {[kind |-> "int", i |-> i] : i \in 0..MaxIndex}
    \cup {[kind |-> "slice", start |-> i, stop |-> 0, to_end |-> TRUE] : i \in 0..MaxIndex}
GetItemMethods == {[name |-> "__getitem__", index |-> x] : x \in Indexes}

MatcherMethods ==
    SubqueryMethods \cup CteMethods \cup InsertIntoMethods \cup CreateTableAsMethods
    \cup TableMethods

\* The selectors handed to patch: none, one matcher, or the second
\* statement and a matcher.
NoSelector == [given |-> FALSE, chain |-> <<>>]
Selectors ==
    {NoSelector}
    \cup {[given |-> TRUE, chain |-> <<m>>] : m \in MatcherMethods}
    \cup {[given |-> TRUE, chain |-> <<st, m>>] :
             st \in {x \in StatementMethods : x.start = 1 /\ x.end = 0},
             m \in MatcherMethods}

\* The datasets handed to patch.
Datasets ==
    {[rows |-> <<<<PyInt(<<"1">>)>>>>, cols |-> <<>>],
     [rows |-> <<<<PyInt(<<"1">>)>>>>, cols |-> <<<<"c">>>>]}
PatchMethods ==
    {[name |-> "patch", selector |-> sel, rows |-> d.rows, cols |-> d.cols] :
        sel \in Selectors, d \in Datasets}

RenderInit ==
    /\ pc = "render"
    /\ sql \in Queries
    /\ arg = NoArg
    /\ out = NoOut
    /\ config = DefaultConfig
    /\ renderer = Renderer(sql)
    /\ last = NoLast
    /\ NoObjects

\* One iteration of the loop of Renderable.render: render method m is applied
\* to the Renderer and gives `result`, the next Renderer or the exception.
Step(m, result) ==
    /\ pc = "render"
    /\ renderer.err = "none"
    /\ last.step < MaxOps
    /\ renderer' = result
    /\ last' = [op |-> m, before |-> renderer, step |-> last.step + 1]
    /\ UNCHANGED <<pc, sql, arg, out, config, objects>>

Statement == \E m \in StatementMethods : Step(m, statement(renderer, m.start, m.end))
Subquery == \E m \in SubqueryMethods : Step(m, subquery(renderer, m.alias))
Cte == \E m \in CteMethods : Step(m, cte(renderer, m.alias))
InsertInto == \E m \in InsertIntoMethods : Step(m, insert_into(renderer, m.table))
CreateTableAs ==
    \E m \in CreateTableAsMethods : Step(m, create_table_as(renderer, m.table))
Table == \E m \in TableMethods : Step(m, table(renderer, m.table, m.alias))
Body == \E m \in BodyMethods : Step(m, body(renderer))
GetItem == \E m \in GetItemMethods : Step(m, getitem(renderer, m.index))
Patch == \E m \in PatchMethods : Step(m, patch(renderer, m.selector, m.rows, m.cols))

RenderNext ==
    \/ Statement
    \/ Subquery
    \/ Cte
    \/ InsertInto
    \/ CreateTableAs
    \/ Table
    \/ Body
    \/ GetItem
    \/ Patch

Spec == RenderInit /\ [][RenderNext]_vars


(***************************************************************************)
(* Claims about rendering (Spec).  `last` holds the render method applied  *)
(* last and the Renderer it was applied to; `renderer` holds what it gave. *)
(***************************************************************************)
\* the five matchers that search with a regular expression
Matchers == {"subquery", "cte", "table", "insert_into", "create_table_as"}

\* the pattern of a matcher method, as FindIter takes it
PatternOf(m) ==
    CASE m.name \in {"subquery", "cte"} -> [kind |-> m.name, alias |-> m.alias]
      [] m.name \in {"insert_into", "create_table_as"} -> [kind |-> m.name, table |-> m.table]
      [] m.name = "table" -> [kind |-> "table", table |-> m.table, alias |-> m.alias]

\* what the loop of matcher m builds on Renderer r, one [err, view] for each
\* occurrence of its pattern in the search view, in text order
BuiltBy(r, m) ==
    LET s == search_view(r)
        matches == FindIter(s, PatternOf(m), 0)
    IN  [k \in 1..Len(matches) |->
            CASE m.name = "subquery" -> SubqueryView(r, s, m.alias, matches[k])
              [] m.name = "cte" -> CteView(r, s, matches[k])
              [] m.name = "insert_into" -> InsertIntoView(r, s, matches[k])
              [] m.name = "create_table_as" -> CreateTableAsView(r, s, matches[k])
              [] m.name = "table" ->
                    [err |-> "none", view |-> TableView(s, m.table, m.alias, matches[k])]]

AllBuilt(built) == \A k \in 1..Len(built) : built[k].err = "none"

\* two views overlap
Overlap(v, w) == v.bounds.start < w.bounds.stop /\ w.bounds.start < v.bounds.stop

\* the views are in ascending order and pairwise disjoint
PairwiseDisjoint(views) ==
    \A i, j \in 1..Len(views) : i < j => views[i].bounds.stop <= views[j].bounds.start

\* the Renderer a matcher of the last step ran on: the Renderer of the step,
\* or, for patch with a one-matcher selector, the Renderer of the selected text
MatchedOn ==
    IF last.op.name = "patch" THEN Renderer(sql_view(last.before)) ELSE last.before

\* the matcher of the last step, if it has one: itself, or the one matcher
\* of the selector of patch
HasMatcher ==
    \/ last.op.name \in Matchers /\ HasOneView(last.before)
    \/ /\ last.op.name = "patch"
       /\ last.op.selector.given
       /\ HasOneView(last.before)
       /\ Len(last.op.selector.chain) = 1
       /\ last.op.selector.chain[1].name \in Matchers
MatcherOf == IF last.op.name = "patch" THEN last.op.selector.chain[1] ELSE last.op

\* C3: a Renderer is never built from views of which two overlap, adjacent
\* in the list or not: building it raises NestedMatchError, at match time
\* and also when the matcher is only the selector of patch; every Renderer
\* that is built has its views in ascending order and pairwise disjoint.
C3_ViewsDisjointOrNestedMatch ==
    /\ renderer.err = "none" => PairwiseDisjoint(renderer.views)
    /\ HasMatcher =>
          LET built == BuiltBy(MatchedOn, MatcherOf)
          IN  (/\ AllBuilt(built)
               /\ \E i, j \in 1..Len(built) : i < j /\ Overlap(built[i].view, built[j].view))
              => renderer.err = "NestedMatchError"

\* C3 happens: a nested subquery or CTE match has failed at match time
C3_Witness ==
    /\ last.op.name \in {"subquery", "cte"}
    /\ renderer.err = "NestedMatchError"

\* C4: a matcher that finds k > 1 occurrences whose views do not overlap
\* succeeds with k views, in text order; a matcher applied to one view never
\* raises MultipleMatchError; body, statement and the matchers raise it when
\* applied to several views; indexing [i] with 0 <= i < k gives the i-th view.
C4_MultipleMatchOnlyWhenOneViewNeeded ==
    /\ (last.op.name \in Matchers /\ HasOneView(last.before)) =>
          /\ renderer.err # "MultipleMatchError"
          /\ LET built == BuiltBy(last.before, last.op)
                 views == [k \in 1..Len(built) |-> built[k].view]
             IN  (Len(built) > 1 /\ AllBuilt(built) /\ PairwiseDisjoint(views)) =>
                    /\ renderer.err = "none"
                    /\ renderer.views = views
                    /\ \A k \in 2..Len(views) :
                          views[k - 1].bounds.start < views[k].bounds.start
    /\ (last.op.name \in Matchers \cup {"body", "statement"}
        /\ Len(last.before.views) > 1) => renderer.err = "MultipleMatchError"
    /\ (/\ last.op.name = "__getitem__"
        /\ last.op.index.kind = "int"
        /\ last.op.index.i >= 0
        /\ last.op.index.i < Len(last.before.views)) =>
          /\ renderer.err = "none"
          /\ renderer.views = <<last.before.views[last.op.index.i + 1]>>

\* C4 happens: a matcher found several occurrences and the second one was
\* selected by indexing
C4_Witness ==
    /\ last.op.name = "__getitem__"
    /\ last.op.index.kind = "int"
    /\ last.op.index.i = 1
    /\ Len(last.before.views) > 1
    /\ renderer.err = "none"

\* C5: patch without a selector on a Renderer that holds several patchable
\* views rewrites each of them and returns one view, no MultipleMatchError.
C5_PatchOfSeveralViewsSucceeds ==
    (/\ last.op.name = "patch"
     /\ ~last.op.selector.given
     /\ Len(last.before.views) > 1
     /\ \A k \in 1..Len(last.before.views) :
           check_is_patchable(last.before.views[k], last.op.cols) = "none") =>
        /\ renderer.err = "none"
        /\ Len(renderer.views) = 1

\* the text with the offsets a..b-1 replaced by one space and the literal
ReplaceRange(text, a, b, literal) ==
    SubSeq(text, 1, Max(0, Min(a, Len(text)))) \o <<" ">> \o literal
    \o SubSeq(text, Max(0, Min(b, Len(text))) + 1, Len(text))

RECURSIVE ReplaceAll(_, _, _)
\* the ranges replaced one at a time, the last one first, each by its literal
ReplaceAll(text, ranges, literals) ==
    IF ranges = <<>> THEN text
    ELSE ReplaceAll(ReplaceRange(text, ranges[Len(ranges)].start, ranges[Len(ranges)].stop,
                                 literals[Len(literals)]),
                    SubSeq(ranges, 1, Len(ranges) - 1),
                    SubSeq(literals, 1, Len(literals) - 1))

RECURSIVE SumOf(_)
SumOf(ns) == IF ns = <<>> THEN 0 ELSE Head(ns) + SumOf(Tail(ns))

\* the replacement literal of a view for the dataset of the last patch
LiteralOf(v) ==
    _gen_values(last.op.rows, last.op.cols, v.patch_params.patch_alias,
                v.patch_params.select_all_from).text

\* the last step was a patch with a selector, on one view, of views that
\* are all patchable
PatchedWithSelector ==
    /\ last.op.name = "patch"
    /\ last.op.selector.given
    /\ HasOneView(last.before)
    /\ Rendered(last.before, last.op.selector).err = "none"
    /\ \A k \in 1..Len(Rendered(last.before, last.op.selector).views) :
          check_is_patchable(Rendered(last.before, last.op.selector).views[k],
                             last.op.cols) = "none"

\* C6: patching k >= 2 matches in one pass gives the original text with
\* each view's patch range replaced by one space and the literal and all
\* other characters unchanged, in order; its length is the original length
\* plus the sum over the matches of 1 + literal length - patch range length.
C6_PatchInOnePassReplacesEachRange ==
    (PatchedWithSelector /\ Len(Rendered(last.before, last.op.selector).views) >= 2) =>
        LET views == Rendered(last.before, last.op.selector).views
            ranges == [k \in 1..Len(views) |->
                          Slice(view(last.before).bounds.start + views[k].patch.start,
                                view(last.before).bounds.start + views[k].patch.stop)]
            literals == [k \in 1..Len(views) |-> LiteralOf(views[k])]
        IN  /\ renderer.err = "none"
            /\ renderer.raw_sql = ReplaceAll(last.before.raw_sql, ranges, literals)
            /\ Len(renderer.raw_sql) =
                  Len(last.before.raw_sql)
                  + SumOf([k \in 1..Len(views) |->
                              1 + Len(literals[k]) - (ranges[k].stop - ranges[k].start)])

\* the views with their offsets moved by offset
Shifted(views, offset) == [k \in 1..Len(views) |-> from_offset(views[k], offset)]

RECURSIVE SelectedViews(_, _)
\* The views that a selector selects in a text, with offsets into that
\* text: those of its matcher, found in the statement that the selector
\* names first, if it names one, and then moved by the offset of the
\* statement in the text.
SelectedViews(chain, text) ==
    IF Head(chain).name = "statement"
    THEN LET stmt == statement(Renderer(text), Head(chain).start, Head(chain).end)
         IN  Shifted(SelectedViews(Tail(chain), sql_view(stmt)), view(stmt).bounds.start)
    ELSE LET built == BuiltBy(Renderer(text), Head(chain))
         IN  [k \in 1..Len(built) |-> built[k].view]

\* C7: patch with a selector on one view V replaces, in the full text,
\* exactly the patch ranges that the selector selects in the text of V
\* (moved by V.bounds.start), for one-matcher selectors and for selectors
\* such as statement(k).table(n); all other text is unchanged.  Stated for
\* the views whose patch range starts inside the text: a range that starts
\* before it is the case of C10.
C7_PatchReplacesWhatSelectorSelects ==
    (/\ PatchedWithSelector
     /\ renderer.err = "none"
     /\ \A k \in 1..Len(Rendered(last.before, last.op.selector).views) :
           Rendered(last.before, last.op.selector).views[k].patch.start >= 0) =>
        LET views == SelectedViews(last.op.selector.chain, sql_view(last.before))
            ranges == [k \in 1..Len(views) |->
                          Slice(view(last.before).bounds.start + views[k].patch.start,
                                view(last.before).bounds.start + views[k].patch.stop)]
            literals == [k \in 1..Len(views) |-> LiteralOf(views[k])]
        IN  renderer.raw_sql = ReplaceAll(last.before.raw_sql, ranges, literals)

\* C8: a matcher applied to a Renderer whose view starts at offset s gives
\* a Renderer over the same original text, whose views are those that the
\* matcher finds in the selected text alone, moved by s.
C8_MatcherViewsAreAbsolute ==
    (/\ last.op.name \in Matchers \cup {"statement"}
     /\ HasOneView(last.before)
     /\ renderer.err = "none") =>
        /\ renderer.raw_sql = last.before.raw_sql
        /\ renderer.views =
              Shifted(ApplySelectorMethod(Renderer(sql_view(last.before)), last.op).views,
                      view(last.before).bounds.start)

\* the offsets of the ';' of a text
Semicolons(s) == {i \in 0..(Len(s) - 1) : s[i + 1] = ";"}

\* the offset of the k-th ';' of a text, k = 1 for the first
NthSemicolon(s, k) ==
    CHOOSE i \in Semicolons(s) : Cardinality({j \in Semicolons(s) : j < i}) = k - 1

\* the range of statements i..j-1 of a text of n statements: from after the
\* i-th ';' up to the j-th ';'
StatementRange(s, i, j, n) ==
    Slice(IF i = 0 THEN 0 ELSE NthSemicolon(s, i) + 1,
          IF j = n THEN Len(s) ELSE NthSemicolon(s, j))

\* C9: with n = (number of ';' in the search view) + 1, statement(i, j) for
\* 0 <= i < j <= n gives one view over statements i..j-1 with their interior
\* semicolons and no leading or trailing one; statement(i) is
\* statement(i, i + 1); for i >= n or j > n it raises StatementParseError,
\* which reports n.
C9_StatementSelectsRange ==
    (last.op.name = "statement" /\ HasOneView(last.before)) =>
        LET s == search_view(last.before)
            n == Cardinality(Semicolons(s)) + 1
            i == last.op.start
            j == IF last.op.end = 0 THEN last.op.start + 1 ELSE last.op.end
            range == StatementRange(s, i, j, n)
        IN  /\ (i < j /\ j <= n) =>
                  /\ renderer.err = "none"
                  /\ renderer.raw_sql = last.before.raw_sql
                  /\ Len(renderer.views) = 1
                  /\ view(renderer).bounds =
                        Slice(view(last.before).bounds.start + range.start,
                              view(last.before).bounds.start + range.stop)
                  /\ sql_view(renderer) = PySlice(s, range.start, range.stop)
            /\ (i < j /\ (i >= n \/ j > n)) =>
                  /\ renderer.err = "StatementParseError"
                  /\ renderer.n = n
            /\ last.op.end = 0 => renderer = statement(last.before, i, i + 1)

\* C9 happens: statement(0, 2) has selected two of three or more statements
C9_Witness ==
    /\ last.op.name = "statement"
    /\ last.op.start = 0
    /\ last.op.end = 2
    /\ renderer.err = "none"
    /\ view(renderer).bounds.stop < Len(renderer.raw_sql)
    /\ ";" \in {renderer.raw_sql[k] : k \in 1..view(renderer).bounds.stop}

\* the views that the patch of the last step is to rewrite, when they
\* could be rendered
HasTargets ==
    /\ last.op.name = "patch"
    /\ last.op.selector.given => HasOneView(last.before)
    /\ Rendered(last.before, last.op.selector).err = "none"
Targets == Rendered(last.before, last.op.selector).views

\* the view at position k is the first target that the loop of patch
\* refuses or that differs from the views before it: those before it are
\* patchable with the columns of the last step
FirstRefused(k) ==
    \A j \in 1..(k - 1) :
        /\ Targets[j].has_patch
        /\ Targets[j].patch_params.patch_alias # None => last.op.cols # <<>>

\* C11 as stated: patch fails with UnpatchableError for every target view
\* without a non-empty patch range, both when the view carries no patch
\* range and when its patch range is empty (patch.start = patch.stop).
\* Stated for a patch that is given columns, so that no other error is due.
C11_EmptyPatchRangeIsUnpatchable ==
    (HasTargets /\ last.op.cols # <<>>) =>
        \A k \in 1..Len(Targets) :
            (/\ FirstRefused(k)
             /\ \/ ~Targets[k].has_patch
                \/ Targets[k].patch.start = Targets[k].patch.stop)
            => renderer.err = "UnpatchableError"

\* C11 as the code has it: patch fails with UnpatchableError exactly when a
\* target view carries no patch range at all; a view whose patch range is
\* empty is patched like any other, the literal being inserted at the
\* position of the range.
C11_UnpatchableOnlyWithoutPatchRange ==
    HasTargets =>
        /\ \A k \in 1..Len(Targets) :
              (FirstRefused(k) /\ ~Targets[k].has_patch)
              => renderer.err = "UnpatchableError"
        /\ renderer.err = "UnpatchableError" =>
              \E k \in 1..Len(Targets) : ~Targets[k].has_patch
        /\ (/\ last.op.selector.given
            /\ Len(Targets) = 1
            /\ Targets[1].has_patch
            /\ Targets[1].patch.start = Targets[1].patch.stop
            /\ Targets[1].patch.start >= 0
            /\ last.op.cols # <<>>) =>
              /\ renderer.err = "none"
              /\ renderer.raw_sql =
                    ReplaceRange(last.before.raw_sql,
                                 view(last.before).bounds.start + Targets[1].patch.start,
                                 view(last.before).bounds.start + Targets[1].patch.stop,
                                 LiteralOf(Targets[1]))

\* C11 happens: a view with an empty patch range has been patched
C11_Witness ==
    /\ HasTargets
    /\ last.op.selector.given
    /\ Len(Targets) = 1
    /\ Targets[1].has_patch
    /\ Targets[1].patch.start = Targets[1].patch.stop
    /\ renderer.err = "none"
    /\ Len(renderer.raw_sql) > Len(last.before.raw_sql)

(***************************************************************************)
(* Side effects and Renderables.  Objects are held by identity: a          *)
(* Renderable is a position in `renderables`, a SideEffect a position in   *)
(* `side_effects`.  A Renderable is [kind, chain], kind being its class.   *)
(***************************************************************************)
\* pgmock.data(rows, cols), and None where a Data is expected
data(rows, cols) == [kind |-> "Data", rows |-> rows, cols |-> cols]
NoData == [kind |-> "None"]

\* SideEffect.__init__(side_effect) for a list: the elements are checked
SideEffect(side_effect) ==
    IF \E k \in 1..Len(side_effect) : side_effect[k].kind \notin {"Data", "None"}
    THEN [err |-> "TypeError", iterable_idx |-> 0, side_effect |-> <<>>]
    ELSE [err |-> "none", iterable_idx |-> 0, side_effect |-> side_effect]

\* a SideEffect.__call__ that is exhausted one call too late
SideEffectCallOnceMore(se) ==
    IF se.iterable_idx > Len(se.side_effect)
    THEN [err |-> "SideEffectExhaustedError", n |-> Len(se.side_effect),
          value |-> NoData, after |-> se]
    ELSE [err |-> "none", n |-> 0,
          value |-> IF se.iterable_idx < Len(se.side_effect)
                    THEN se.side_effect[se.iterable_idx + 1] ELSE NoData,
          after |-> [se EXCEPT !.iterable_idx = @ + 1]]

\* SideEffect.__call__(): [err, n, value, after], after being the object
\* once the call has returned or raised; n is the length the error names
SideEffectCall(se) ==
    IF se.iterable_idx >= Len(se.side_effect)
    THEN [err |-> "SideEffectExhaustedError", n |-> Len(se.side_effect),
          value |-> NoData, after |-> se]
    ELSE [err |-> "none", n |-> 0,
          value |-> se.side_effect[se.iterable_idx + 1],
          after |-> [se EXCEPT !.iterable_idx = @ + 1]]

\* The side_effect argument of patch: none given, or a list.
NoSideEffect == [kind |-> "none"]
SideEffectList(items) == [kind |-> "list", items |-> items]

\* Mocker.patch keeps a falsy side_effect as it is (None, the empty list)
\* and wraps any other list in a new SideEffect: [err, side_effect, ses]
\* with ses the SideEffect objects after the call.
WrappedSideEffect(ses, side_effect, made) ==
    IF made.err # "none" THEN [err |-> made.err, side_effect |-> side_effect, ses |-> ses]
    ELSE [err |-> "none", side_effect |-> [kind |-> "SideEffect", ref |-> Len(ses) + 1],
          ses |-> Append(ses, made)]

MockerSideEffect(ses, side_effect) ==
    IF side_effect.kind = "none" \/ side_effect.items = <<>>
    THEN [err |-> "none", side_effect |-> side_effect, ses |-> ses]
    ELSE WrappedSideEffect(ses, side_effect, SideEffect(side_effect.items))

\* the RenderMethod that Mocker.patch appends
PatchMethod(selector, rows, cols, side_effect) ==
    [name |-> "patch", selector |-> selector, rows |-> rows, cols |-> cols,
     side_effect |-> side_effect]

\* `if side_effect:` in Renderer.patch: None and the empty list are falsy,
\* a SideEffect object is truthy
Truthy(side_effect) == side_effect.kind = "SideEffect"

\* What the loop of Renderable.render carries: the Renderer (or the
\* exception) and the SideEffect objects.
Carried(r, ses) == [renderer |-> r, ses |-> ses]

\* Renderer.patch with a side effect, once the side effect has been called
PatchNext(r, ses, m, called) ==
    IF called.err # "none"
    THEN Carried(Raise(called.err, called.n), [ses EXCEPT ![m.side_effect.ref] = called.after])
    ELSE IF called.value.kind = "None"
    THEN Carried(r, [ses EXCEPT ![m.side_effect.ref] = called.after])
    ELSE Carried(patch(r, m.selector, called.value.rows, called.value.cols),
                 [ses EXCEPT ![m.side_effect.ref] = called.after])

\* Renderer.patch(selector, rows, cols, side_effect)
PatchCall(r, ses, m) ==
    IF ~Truthy(m.side_effect) THEN Carried(patch(r, m.selector, m.rows, m.cols), ses)
    ELSE IF m.rows # <<>> \/ m.cols # <<>> THEN Carried(Raise("ValueError", 0), ses)
    ELSE PatchNext(r, ses, m, SideEffectCall(ses[m.side_effect.ref]))

\* getattr(renderer, render_method.name)(*args, **kwargs)
RenderMethodCall(r, ses, m) ==
    IF m.name = "patch" THEN PatchCall(r, ses, m)
    ELSE Carried(ApplySelectorMethod(r, m), ses)

RECURSIVE RenderLoop(_, _)
\* the for loop of Renderable.render over self._chain
RenderLoop(carried, chain) ==
    IF chain = <<>> \/ carried.renderer.err # "none" THEN carried
    ELSE RenderLoop(RenderMethodCall(carried.renderer, carried.ses, Head(chain)), Tail(chain))

\* Renderable.render(sql) for a chain: the Renderer returned or the
\* exception, and the SideEffect objects after it
render(chain, ses, s) == RenderLoop(Carried(Renderer(s), ses), chain)

\* an isinstance that holds for every two Renderables
IsInstanceOfAny(kind, of_kind) == TRUE

\* isinstance(renderable, type(self)) for the classes Renderable, Selector
\* and Mocker: Selector and Mocker both derive from Renderable
IsInstance(kind, of_kind) == of_kind = "Renderable" \/ kind = of_kind

\* copy.deepcopy of one render method: a SideEffect it holds is copied too.
\* [method, ses]
CopiedMethod(m, ses) ==
    IF m.name = "patch" /\ m.side_effect.kind = "SideEffect"
    THEN [method |-> [m EXCEPT !.side_effect.ref = Len(ses) + 1],
          ses |-> Append(ses, ses[m.side_effect.ref])]
    ELSE [method |-> m, ses |-> ses]

RECURSIVE CopiedChain(_, _, _)
\* copy.deepcopy of a chain, method by method: [chain, ses]
CopiedChain(todo, done, ses) ==
    IF todo = <<>> THEN [chain |-> done, ses |-> ses]
    ELSE CopiedChain(Tail(todo), Append(done, CopiedMethod(Head(todo), ses).method),
                     CopiedMethod(Head(todo), ses).ses)

\* What chain() is working on: the Renderables, the SideEffects, the
\* position of `chained` among the Renderables, and the exception if any.
Chaining(err, objs, ses, chained) ==
    [err |-> err, renderables |-> objs, ses |-> ses, chained |-> chained]

\* chained = copy.deepcopy(renderables[0]), given the copy of its chain
DeepCopied(objs, first, copied) ==
    Chaining("none", Append(objs, [kind |-> objs[first].kind, chain |-> copied.chain]),
             copied.ses, Len(objs) + 1)

\* a Renderable.chain that puts the chain of the renderable first
RenderableChainInFront(c, ref) ==
    IF ~IsInstance(c.renderables[ref].kind, c.renderables[c.chained].kind)
    THEN [c EXCEPT !.err = "SelectorChainingError"]
    ELSE [c EXCEPT !.renderables[c.chained].chain = c.renderables[ref].chain \o @]

\* Renderable.chain(self, renderable): self is `chained`, renderable is at ref
RenderableChain(c, ref) ==
    IF ~IsInstance(c.renderables[ref].kind, c.renderables[c.chained].kind)
    THEN [c EXCEPT !.err = "SelectorChainingError"]
    ELSE [c EXCEPT !.renderables[c.chained].chain = @ \o c.renderables[ref].chain]

RECURSIVE ChainLoop(_, _)
\* for renderable in renderables[1:]: chained.chain(renderable)
ChainLoop(c, refs) ==
    IF refs = <<>> \/ c.err # "none" THEN c
    ELSE ChainLoop(RenderableChain(c, Head(refs)), Tail(refs))

\* chain(*renderables) for the Renderables at positions refs
chain(objs, ses, refs) ==
    IF refs = <<>> THEN Chaining("TypeError", objs, ses, 0)
    ELSE ChainLoop(DeepCopied(objs, Head(refs), CopiedChain(objs[Head(refs)].chain, <<>>, ses)),
                   Tail(refs))

\* str(selector.render(query).sql_view): [err, n, text, ses]
SqlView(carried) ==
    IF carried.renderer.err # "none"
    THEN [err |-> carried.renderer.err, n |-> carried.renderer.n, text |-> <<>>,
          ses |-> carried.ses]
    ELSE IF ~HasOneView(carried.renderer)
    THEN [err |-> "MultipleMatchError", n |-> 0, text |-> <<>>, ses |-> carried.ses]
    ELSE [err |-> "none", n |-> 0, text |-> sql_view(carried.renderer), ses |-> carried.ses]

\* sql(query, *selectors) once the selectors are chained
SqlChained(query, c) ==
    IF c.err # "none" THEN [err |-> c.err, n |-> 0, text |-> <<>>, ses |-> c.ses]
    ELSE SqlView(render(c.renderables[c.chained].chain, c.ses, query))

\* pgmock.sql(query, *selectors) with safe_mode = None, for the Renderables
\* at positions refs: [err, n, text, ses].  Without selectors the chain is
\* that of Renderable(), the empty one.
sql_of(query, objs, ses, refs) ==
    IF refs = <<>> THEN SqlView(render(<<>>, ses, query))
    ELSE SqlChained(query, chain(objs, ses, refs))

(***************************************************************************)
(* Specification of chaining: Selectors and Mockers are made, render       *)
(* methods are called on them fluently, and they are handed to chain() and *)
(* to pgmock.sql().                                                        *)
(***************************************************************************)
MaxRenderables == 2
MaxChain == 2
MaxChained == 3

\* the render methods called fluently on a Selector, and on a Mocker
SelectorCalls ==
    {[name |-> "statement", start |-> 0, end |-> 0],
     [name |-> "table", table |-> <<"t">>, alias |-> None],
     [name |-> "subquery", alias |-> <<"b">>]}
MockerCalls ==
    {PatchMethod([given |-> TRUE, chain |-> <<m>>], <<<<PyInt(<<"1">>)>>>>, <<<<"c">>>>,
                 NoSideEffect) :
        m \in {[name |-> "table", table |-> <<"t">>, alias |-> None],
               [name |-> "subquery", alias |-> <<"b">>]}}
CallsOf(kind) == IF kind = "Selector" THEN SelectorCalls ELSE MockerCalls

\* the texts handed to pgmock.sql
ChainQueries ==
    {<<"f", "r", "o", "m", " ", "t">>,
     <<"(", "x", ")", "b", "f", "r", "o", "m", " ", "t">>}

\* Renderable.__init__() of Selector() or Mocker(): an empty chain
NewRenderable(kind) == [kind |-> kind, chain |-> <<>>]

\* the wrapper of chainable_render_method: the render method is appended to
\* the chain of self
chainable_render_method(obj, m) == [obj EXCEPT !.chain = Append(@, m)]

NoCall == [op |-> [name |-> "none"], before |-> <<>>]

ChainInit ==
    /\ pc = "chain"
    /\ sql \in ChainQueries
    /\ arg = NoArg
    /\ out = NoOut
    /\ config = DefaultConfig
    /\ renderer = NoRenderer
    /\ last = NoCall
    /\ NoObjects

\* Selector() or Mocker()
New ==
    /\ pc = "chain"
    /\ Len(renderables) < MaxRenderables
    /\ last.op.name \in {"none", "new", "call"}
    /\ \E kind \in {"Selector", "Mocker"} :
          /\ renderables' = Append(renderables, NewRenderable(kind))
          /\ last' = [op |-> [name |-> "new"], before |-> renderables]
    /\ UNCHANGED <<pc, sql, arg, out, config, renderer, side_effects, contextable, mockers>>

\* a render method called fluently on one of the Renderables
Call ==
    /\ pc = "chain"
    /\ last.op.name \in {"none", "new", "call"}
    /\ \E ref \in 1..Len(renderables) :
          /\ Len(renderables[ref].chain) < MaxChain
          /\ \E m \in CallsOf(renderables[ref].kind) :
                renderables' =
                    [renderables EXCEPT ![ref] = chainable_render_method(@, m)]
          /\ last' = [op |-> [name |-> "call"], before |-> renderables]
    /\ UNCHANGED <<pc, sql, arg, out, config, renderer, side_effects, contextable, mockers>>

\* the Renderables after chain() has returned or raised: the copy it made
\* is returned, or dropped with the exception
AfterChain(c) ==
    IF c.err = "none" THEN c.renderables
    ELSE SubSeq(c.renderables, 1, Len(c.renderables) - 1)

ChainReturned(refs, c) ==
    /\ out' = [err |-> c.err, chained |-> c.chained]
    /\ renderables' = AfterChain(c)
    /\ side_effects' = c.ses
    /\ last' = [op |-> [name |-> "chain", refs |-> refs], before |-> renderables]

\* chain(r1, ..., rk)
Chain ==
    /\ pc = "chain"
    /\ renderables # <<>>
    /\ last.op.name \in {"none", "new", "call"}
    /\ \E refs \in SeqsUpTo(1..Len(renderables), MaxChained) :
          /\ refs # <<>>
          /\ ChainReturned(refs, chain(renderables, side_effects, refs))
    /\ UNCHANGED <<pc, sql, arg, config, renderer, contextable, mockers>>

SqlReturned(refs, returned) ==
    /\ out' = [err |-> returned.err, n |-> returned.n, text |-> returned.text]
    /\ last' = [op |-> [name |-> "sql", refs |-> refs], before |-> renderables]

\* pgmock.sql(query, r1, ..., rk)
Sql ==
    /\ pc = "chain"
    /\ last.op.name \in {"none", "new", "call"}
    /\ \E refs \in SeqsUpTo(1..Len(renderables), MaxChained) :
          SqlReturned(refs, sql_of(sql, renderables, side_effects, refs))
    /\ UNCHANGED <<pc, sql, arg, config, renderer, renderables, side_effects,
                   contextable, mockers>>

ChainNext == New \/ Call \/ Chain \/ Sql

SpecChain == ChainInit /\ [][ChainNext]_vars

\* the chains of the Renderables at refs, one after the other
RECURSIVE ChainsOf(_, _)
ChainsOf(objs, refs) ==
    IF refs = <<>> THEN <<>> ELSE objs[Head(refs)].chain \o ChainsOf(objs, Tail(refs))

RECURSIVE FluentlyBuilt(_, _)
\* the Renderable on which the methods are called fluently, one by one
FluentlyBuilt(obj, methods) ==
    IF methods = <<>> THEN obj
    ELSE FluentlyBuilt(chainable_render_method(obj, Head(methods)), Tail(methods))

\* the Renderables at refs are all of the kind of the first
SameKind(objs, refs) == \A k \in 1..Len(refs) : objs[refs[k]].kind = objs[refs[1]].kind

\* C12: for Renderables r1..rk of the same kind, chain(r1, ..., rk) has as
\* its chain the chains of r1..rk one after the other, in order, and
\* sql(text, r1, ..., rk) returns what sql(text, r) returns for the r on
\* which the same methods were called fluently.
C12_ChainIsFluentChaining ==
    /\ (last.op.name = "chain" /\ SameKind(last.before, last.op.refs)) =>
          /\ out.err = "none"
          /\ renderables[out.chained].kind = last.before[last.op.refs[1]].kind
          /\ renderables[out.chained].chain = ChainsOf(last.before, last.op.refs)
    /\ (last.op.name = "sql" /\ last.op.refs # <<>> /\ SameKind(last.before, last.op.refs)) =>
          LET fluent == FluentlyBuilt(NewRenderable(last.before[last.op.refs[1]].kind),
                                      ChainsOf(last.before, last.op.refs))
              returned == sql_of(sql, <<fluent>>, side_effects, <<1>>)
          IN  out = [err |-> returned.err, n |-> returned.n, text |-> returned.text]

\* C12 happens: two Renderables of one kind, each with a render method,
\* have been chained
C12_Witness ==
    /\ last.op.name = "chain"
    /\ Len(last.op.refs) >= 2
    /\ last.op.refs[1] # last.op.refs[2]
    /\ SameKind(last.before, last.op.refs)
    /\ \A k \in 1..Len(last.op.refs) : last.before[last.op.refs[k]].chain # <<>>
    /\ last.before[last.op.refs[1]].chain # last.before[last.op.refs[2]].chain
    /\ out.err = "none"

\* C13: chain(x, y) of a Selector and a Mocker, in either order, fails with
\* SelectorChainingError and leaves the chains of x and y unchanged; of two
\* Selectors or of two Mockers it succeeds.
C13_ChainOnlySameKind ==
    (last.op.name = "chain" /\ Len(last.op.refs) = 2) =>
        LET x == last.op.refs[1]
            y == last.op.refs[2]
        IN  /\ last.before[x].kind # last.before[y].kind =>
                  /\ out.err = "SelectorChainingError"
                  /\ renderables = last.before
            /\ last.before[x].kind = last.before[y].kind => out.err = "none"

\* C13 happens: a Selector and a Mocker with render methods were chained
C13_Witness ==
    /\ last.op.name = "chain"
    /\ Len(last.op.refs) = 2
    /\ last.before[last.op.refs[1]].kind = "Selector"
    /\ last.before[last.op.refs[2]].kind = "Mocker"
    /\ last.before[last.op.refs[1]].chain # <<>>
    /\ last.before[last.op.refs[2]].chain # <<>>
    /\ out.err = "SelectorChainingError"

(***************************************************************************)
(* Specification of a SideEffect: it is made over a list and then called.  *)
(***************************************************************************)
MaxSideEffect == 3
MaxCalls == 5

\* the Data of the side effects: one row (0) or (1) for the column c
SideEffectData ==
    {data(<<<<PyInt(<<"0">>)>>>>, <<<<"c">>>>), data(<<<<PyInt(<<"1">>)>>>>, <<<<"c">>>>)}

\* the lists a SideEffect is made over
SideEffectLists == SeqsUpTo(SideEffectData \cup {NoData}, MaxSideEffect)

NoCalls == [op |-> [name |-> "none"], before |-> <<>>, calls |-> 0]

SideEffectInit ==
    /\ pc = "side_effect"
    /\ sql = <<>>
    /\ arg = NoArg
    /\ out = NoOut
    /\ config = DefaultConfig
    /\ renderer = NoRenderer
    /\ last = NoCalls
    /\ renderables = <<>>
    /\ \E items \in SideEffectLists : side_effects = <<SideEffect(items)>>
    /\ contextable = NewContextable
    /\ mockers = <<>>

SideEffectReturned(called) ==
    /\ out' = [err |-> called.err, n |-> called.n, value |-> called.value]
    /\ side_effects' = [side_effects EXCEPT ![1] = called.after]

\* side_effect()
CallSideEffect ==
    /\ pc = "side_effect"
    /\ last.calls < MaxCalls
    /\ SideEffectReturned(SideEffectCall(side_effects[1]))
    /\ last' = [op |-> [name |-> "call"], before |-> side_effects,
                calls |-> last.calls + 1]
    /\ UNCHANGED <<pc, sql, arg, config, renderer, renderables, contextable, mockers>>

SideEffectNext == CallSideEffect

SpecSideEffect == SideEffectInit /\ [][SideEffectNext]_vars

\* C14: for a SideEffect over a list of length n, the k-th call (k <= n)
\* returns element k-1 and leaves the cursor at k; every later call raises
\* SideEffectExhaustedError naming n and leaves the cursor at n; the cursor
\* stays within 0..n and never decreases.
C14_SideEffectCursor ==
    LET se == side_effects[1]
        n == Len(se.side_effect)
        k == last.calls
    IN  /\ se.iterable_idx >= 0
        /\ se.iterable_idx <= n
        /\ k = 0 => se.iterable_idx = 0
        /\ k >= 1 =>
              /\ se.side_effect = last.before[1].side_effect
              /\ se.iterable_idx >= last.before[1].iterable_idx
        /\ (k >= 1 /\ k <= n) =>
              /\ out.err = "none"
              /\ out.value = se.side_effect[k]
              /\ se.iterable_idx = k
        /\ k > n =>
              /\ out.err = "SideEffectExhaustedError"
              /\ out.n = n
              /\ se.iterable_idx = n

\* C14 happens: a SideEffect over two or more elements has been exhausted
\* and called again
C14_Witness ==
    /\ last.op.name = "call"
    /\ Len(side_effects[1].side_effect) >= 2
    /\ last.calls >= Len(side_effects[1].side_effect) + 2
    /\ out.err = "SideEffectExhaustedError"

(***************************************************************************)
(* Specification of a patch with a side effect: pgmock.patch(selector,     *)
(* side_effect=items) makes a Mocker p holding the patch; another patch o  *)
(* without a side effect is made too.  Queries are then rendered by        *)
(* p.render(query) as the query hook does, by pgmock.sql(query, p) and by  *)
(* pgmock.sql(query, o, p).                                                *)
(***************************************************************************)
MaxRenderings == 4

\* the texts rendered: both hold the subquery b and the table t
PatchQueries ==
    {<<"(", "x", ")", "b", " ", "f", "r", "o", "m", " ", "t">>,
     <<"f", "r", "o", "m", " ", "t", ";", "(", "x", ")", "b">>}

TableT == [given |-> TRUE, chain |-> <<[name |-> "table", table |-> <<"t">>, alias |-> None]>>]
SubqueryB == [given |-> TRUE, chain |-> <<[name |-> "subquery", alias |-> <<"b">>]>>]

\* Mocker().patch(selector=selector, rows=rows, cols=cols,
\* side_effect=side_effect), given what Mocker.patch made of the side effect
MockerPatched(selector, rows, cols, wrapped) ==
    chainable_render_method(NewRenderable("Mocker"),
                            PatchMethod(selector, rows, cols, wrapped.side_effect))

NoRenderings == [op |-> [name |-> "none"], before |-> <<>>, calls |-> <<>>]

PatchInit ==
    /\ pc = "patch"
    /\ sql \in PatchQueries
    /\ arg = NoArg
    /\ out = NoOut
    /\ config = DefaultConfig
    /\ renderer = NoRenderer
    /\ last = NoRenderings
    /\ \E items \in SideEffectLists :
          /\ side_effects = MockerSideEffect(<<>>, SideEffectList(items)).ses
          /\ renderables =
                <<MockerPatched(TableT, <<>>, <<>>, MockerSideEffect(<<>>, SideEffectList(items))),
                  MockerPatched(SubqueryB, <<<<PyInt(<<"1">>)>>>>, <<<<"c">>>>,
                          MockerSideEffect(<<>>, NoSideEffect))>>
    /\ contextable = NewContextable
    /\ mockers = <<>>

\* what a rendering leaves: its result, and the SideEffect objects that
\* outlive the call (a copy made by chain() dies with the call)
Rendering(name, returned) ==
    /\ out' = [err |-> returned.err, n |-> returned.n, text |-> returned.text]
    /\ side_effects' = SubSeq(returned.ses, 1, Len(side_effects))
    /\ last' = [op |-> [name |-> name], before |-> side_effects,
                calls |-> Append(last.calls, name)]

\* statement = self.render(statement).sql_view, for the Mocker p
MockerRender ==
    /\ pc = "patch"
    /\ Len(last.calls) < MaxRenderings
    /\ Rendering("render", SqlView(render(renderables[1].chain, side_effects, sql)))
    /\ UNCHANGED <<pc, sql, arg, config, renderer, renderables, contextable, mockers>>

\* pgmock.sql(query, p)
SqlPatch ==
    /\ pc = "patch"
    /\ Len(last.calls) < MaxRenderings
    /\ Rendering("sql_first", sql_of(sql, renderables, side_effects, <<1>>))
    /\ UNCHANGED <<pc, sql, arg, config, renderer, renderables, contextable, mockers>>

\* pgmock.sql(query, o, p)
SqlOtherPatch ==
    /\ pc = "patch"
    /\ Len(last.calls) < MaxRenderings
    /\ Rendering("sql_second", sql_of(sql, renderables, side_effects, <<2, 1>>))
    /\ UNCHANGED <<pc, sql, arg, config, renderer, renderables, contextable, mockers>>

PatchNextStep == MockerRender \/ SqlPatch \/ SqlOtherPatch

SpecPatch == PatchInit /\ [][PatchNextStep]_vars

\* the list the side effect of p was built with
PatchItems ==
    IF renderables[1].chain[1].side_effect.kind = "SideEffect"
    THEN side_effects[renderables[1].chain[1].side_effect.ref].side_effect
    ELSE renderables[1].chain[1].side_effect.items

\* the chain of p had it been built with the element d in place of the
\* side effect: no render method for None, a patch with d's rows and cols
\* otherwise
ChainUsing(d) ==
    IF d.kind = "None" THEN <<>>
    ELSE <<PatchMethod(renderables[1].chain[1].selector, d.rows, d.cols, NoSideEffect)>>

\* what a rendering returns when it uses the element d, the selectors of
\* pgmock.sql being those at refs
Using(d, refs) ==
    LET returned == sql_of(sql, [renderables EXCEPT ![1].chain = ChainUsing(d)], <<>>, refs)
    IN  [err |-> returned.err, n |-> returned.n, text |-> returned.text]

RefsOf(name) == IF name = "sql_second" THEN <<2, 1>> ELSE <<1>>

\* C15: for a Mocker holding one patch with a side_effect list of length
\* n >= 0, the i-th call of Mocker.render (1 <= i <= n) uses element i-1 of
\* the list (no rewrite for None) and the (n+1)-th call raises
\* SideEffectExhaustedError.
C15_MockerRenderUsesEachSideEffect ==
    (last.calls # <<>> /\ \A k \in 1..Len(last.calls) : last.calls[k] = "render") =>
        /\ Len(last.calls) <= Len(PatchItems) =>
              /\ out = Using(PatchItems[Len(last.calls)], <<1>>)
              /\ PatchItems[Len(last.calls)].kind = "None" =>
                    (out.err = "none" /\ out.text = sql)
        /\ Len(last.calls) = Len(PatchItems) + 1 =>
              out.err = "SideEffectExhaustedError"

\* C16: when the same patch built with side_effect=[d0, d1, ...] is
\* rendered repeatedly through pgmock.sql, the m-th rendering uses d(m-1)
\* and the rendering after the last element raises
\* SideEffectExhaustedError, whichever position the patch holds among the
\* selectors.
C16_SqlUsesEachSideEffect ==
    (/\ last.calls # <<>>
     /\ PatchItems # <<>>
     /\ \A k \in 1..Len(last.calls) : last.calls[k] \in {"sql_first", "sql_second"}) =>
        /\ Len(last.calls) <= Len(PatchItems) =>
              out = Using(PatchItems[Len(last.calls)], RefsOf(last.op.name))
        /\ Len(last.calls) = Len(PatchItems) + 1 =>
              out.err = "SideEffectExhaustedError"

(***************************************************************************)
(* Specification of a _ContextableConfigValue, the one behind              *)
(* set_replace_new_patch_aliases: its value is                             *)
(* config.replace_new_patch_aliases, its _value_stack and _old_value are   *)
(* in `contextable`.  It is called with a new value, entered and exited;   *)
(* `with set(v):` is a call followed by __enter__, and __exit__ at the end *)
(* of the block.                                                           *)
(***************************************************************************)
MaxScopes == 3

\* What a method of the config value leaves: the exception if any, the
\* value and the object
Configured(err, value, c) == [err |-> err, value |-> value, contextable |-> c]

\* _ContextableConfigValue.__call__(new_value)
ConfigCall(value, c, new_value) ==
    Configured("none", new_value, [c EXCEPT !._old_value = <<value>>])

\* an __enter__ that saves the value in effect instead of the one set aside
ConfigEnterSavesValue(value, c) ==
    IF c._old_value = UNDEFINED_VALUE THEN Configured("TypeError", value, c)
    ELSE Configured("none", value,
                    [_value_stack |-> Append(c._value_stack, value),
                     _old_value |-> UNDEFINED_VALUE])

\* _ContextableConfigValue.__enter__()
ConfigEnter(value, c) ==
    IF c._old_value = UNDEFINED_VALUE THEN Configured("TypeError", value, c)
    ELSE Configured("none", value,
                    [_value_stack |-> Append(c._value_stack, c._old_value[1]),
                     _old_value |-> UNDEFINED_VALUE])

\* an __exit__ that takes the oldest saved value
ConfigExitOldest(value, c) ==
    IF c._value_stack = <<>> THEN Configured("IndexError", value, c)
    ELSE Configured("none", c._value_stack[1],
                    [c EXCEPT !._value_stack = Tail(c._value_stack)])

\* _ContextableConfigValue.__exit__(): self.value = self._value_stack.pop()
ConfigExit(value, c) ==
    IF c._value_stack = <<>> THEN Configured("IndexError", value, c)
    ELSE Configured("none", c._value_stack[Len(c._value_stack)],
                    [c EXCEPT !._value_stack = SubSeq(@, 1, Len(@) - 1)])

\* The scopes that are open, innermost last, each with the value in effect
\* before its set call and the value it set; pending: a set call whose
\* __enter__ has not come yet; proper: the calls so far are those of
\* properly nested `with set(v):` blocks.  op is the call made last, a set
\* call being scoped when it is the one of a with statement; prev is the
\* call before it and was the value and the save stack before it.
NoScopes == [op |-> [name |-> "none", scoped |-> FALSE], before |-> <<>>, scopes |-> <<>>,
             pending |-> FALSE, proper |-> TRUE,
             prev |-> [name |-> "none", scoped |-> FALSE],
             was |-> [value |-> DefaultConfig.replace_new_patch_aliases, stack |-> <<>>]]

ConfigInit ==
    /\ pc = "config"
    /\ sql = <<>>
    /\ arg = NoArg
    /\ out = NoOut
    /\ config = DefaultConfig
    /\ renderer = NoRenderer
    /\ last = NoScopes
    /\ NoObjects

ConfigReturned(returned) ==
    /\ out' = [err |-> returned.err]
    /\ config' = [config EXCEPT !.replace_new_patch_aliases = returned.value]
    /\ contextable' = returned.contextable

\* the call op is noted, with the scopes it leaves
ConfigNoted(op, before, scopes, pending, proper) ==
    last' = [op |-> op, before |-> before, scopes |-> scopes, pending |-> pending,
             proper |-> proper, prev |-> last.op,
             was |-> [value |-> config.replace_new_patch_aliases,
                      stack |-> contextable._value_stack]]

\* set_replace_new_patch_aliases(v), on its own or in a with statement
SetValue ==
    /\ pc = "config"
    /\ \E v \in BOOLEAN, scoped \in BOOLEAN :
          /\ ConfigReturned(ConfigCall(config.replace_new_patch_aliases, contextable, v))
          /\ IF last.proper /\ ~last.pending /\ scoped
             THEN ConfigNoted([name |-> "call", scoped |-> scoped], <<>>,
                              Append(last.scopes,
                                     [before |-> config.replace_new_patch_aliases, set |-> v]),
                              TRUE, TRUE)
             ELSE ConfigNoted([name |-> "call", scoped |-> scoped], <<>>, <<>>, FALSE, FALSE)
    /\ UNCHANGED <<pc, sql, arg, renderer, renderables, side_effects, mockers>>

\* __enter__ of the config value
Enter ==
    /\ pc = "config"
    /\ Len(contextable._value_stack) < MaxScopes
    /\ ConfigReturned(ConfigEnter(config.replace_new_patch_aliases, contextable))
    /\ IF last.proper /\ last.pending
       THEN ConfigNoted([name |-> "enter", scoped |-> FALSE], last.before, last.scopes,
                        FALSE, TRUE)
       ELSE ConfigNoted([name |-> "enter", scoped |-> FALSE], <<>>, <<>>, FALSE, FALSE)
    /\ UNCHANGED <<pc, sql, arg, renderer, renderables, side_effects, mockers>>

\* __exit__ of the config value
Exit ==
    /\ pc = "config"
    /\ ConfigReturned(ConfigExit(config.replace_new_patch_aliases, contextable))
    /\ IF last.proper /\ ~last.pending /\ last.scopes # <<>>
       THEN ConfigNoted([name |-> "exit", scoped |-> FALSE],
                        <<last.scopes[Len(last.scopes)]>>,
                        SubSeq(last.scopes, 1, Len(last.scopes) - 1), FALSE, TRUE)
       ELSE ConfigNoted([name |-> "exit", scoped |-> FALSE], <<>>, <<>>, FALSE, FALSE)
    /\ UNCHANGED <<pc, sql, arg, renderer, renderables, side_effects, mockers>>

ConfigNext == SetValue \/ Enter \/ Exit

SpecConfig == ConfigInit /\ [][ConfigNext]_vars

\* C17: for properly nested scoped overrides of a configuration value,
\* inside each scope the value is the one set for the innermost open scope,
\* on exit of a scope the value is the one in effect immediately before
\* that scope's set call, and after all scopes exit the value is the
\* initial value and the save stack is empty.
C17_NestedScopesRestoreValue ==
    (pc = "config" /\ last.proper) =>
        /\ out.err = "none"
        /\ last.scopes # <<>> =>
              config.replace_new_patch_aliases = last.scopes[Len(last.scopes)].set
        /\ last.op.name = "exit" =>
              config.replace_new_patch_aliases = last.before[1].before
        /\ (last.scopes = <<>> /\ last.op.name = "exit") =>
              /\ config.replace_new_patch_aliases = DefaultConfig.replace_new_patch_aliases
              /\ contextable._value_stack = <<>>

\* C17 happens: inside a scope that changed the value, an inner scope that
\* changed it again has been left
C17_Witness ==
    /\ pc = "config"
    /\ last.proper
    /\ last.op.name = "exit"
    /\ Len(last.scopes) = 1
    /\ last.scopes[1].set # last.scopes[1].before
    /\ last.before[1].before # last.before[1].set
    /\ Len(contextable._value_stack) = 1

(***************************************************************************)
(* Specification of Mockers that are started and stopped on one process:   *)
(* each Mocker is [_connectable, replace_new_patch_aliases, _query_hook,   *)
(* _replace_new_patch_aliases_config], the first telling whether it was    *)
(* given a connectable, the last two whether the hook is listening and     *)
(* whether the config value is held.  The hook of a started Mocker runs    *)
(* when a query is executed.                                               *)
(***************************************************************************)
MaxMockers == 3

\* Mocker(connectable=connectable, replace_new_patch_aliases=setting)
NewMocker(connectable, setting) ==
    [_connectable |-> connectable, replace_new_patch_aliases |-> setting,
     _query_hook |-> FALSE,
     _replace_new_patch_aliases_config |-> FALSE]

\* What start and stop leave: the Mocker and the config value
Started(m, configured) ==
    [err |-> configured.err, mocker |-> m, value |-> configured.value,
     contextable |-> configured.contextable]

\* a stop that drops the config it holds without leaving its scope
MockerStopNoExit(m, value, c) ==
    Started([m EXCEPT !._query_hook = FALSE,
                      !._replace_new_patch_aliases_config = FALSE],
            Configured("none", value, c))

\* Mocker.stop()
MockerStop(m, value, c) ==
    IF m._replace_new_patch_aliases_config
    THEN Started([m EXCEPT !._query_hook = FALSE,
                           !._replace_new_patch_aliases_config = FALSE],
                 ConfigExit(value, c))
    ELSE Started([m EXCEPT !._query_hook = FALSE], Configured("none", value, c))

\* Mocker.start() once self.stop() has returned
MockerStartStopped(stopped) ==
    Started([stopped.mocker EXCEPT !._query_hook = TRUE,
                                   !._replace_new_patch_aliases_config = TRUE],
            ConfigEnter(stopped.mocker.replace_new_patch_aliases,
                        ConfigCall(stopped.value, stopped.contextable,
                                   stopped.mocker.replace_new_patch_aliases).contextable))

\* Mocker.start()
MockerStart(m, value, c) ==
    IF ~m._connectable THEN Started(m, Configured("NoConnectableError", value, c))
    ELSE MockerStartStopped(MockerStop(m, value, c))

\* No call yet.  `was` is the alias-rewrite value and the save stack before
\* the last call.
NoMockerCall ==
    [op |-> [name |-> "none", mocker |-> 0], before |-> <<>>,
     was |-> [value |-> TRUE, stack |-> <<>>]]

MockersInit ==
    /\ pc = "mockers"
    /\ sql = <<"f", "r", "o", "m", " ", "t">>
    /\ arg = NoArg
    /\ out = NoOut
    /\ config = DefaultConfig
    /\ renderer = NoRenderer
    /\ last = NoMockerCall
    /\ renderables = <<>>
    /\ side_effects = <<>>
    /\ contextable = NewContextable
    /\ \E connectables \in [1..MaxMockers -> BOOLEAN], settings \in [1..MaxMockers -> BOOLEAN] :
          mockers = [k \in 1..MaxMockers |-> NewMocker(connectables[k], settings[k])]

MockerReturned(name, k, returned) ==
    /\ out' = [err |-> returned.err]
    /\ mockers' = [mockers EXCEPT ![k] = returned.mocker]
    /\ config' = [config EXCEPT !.replace_new_patch_aliases = returned.value]
    /\ contextable' = returned.contextable
    /\ last' = [op |-> [name |-> name, mocker |-> k], before |-> mockers,
                was |-> [value |-> config.replace_new_patch_aliases,
                         stack |-> contextable._value_stack]]

\* mocker.start()
Start ==
    /\ pc = "mockers"
    /\ \E k \in 1..Len(mockers) :
          MockerReturned("start", k,
                         MockerStart(mockers[k], config.replace_new_patch_aliases, contextable))
    /\ UNCHANGED <<pc, sql, arg, renderer, renderables, side_effects>>

\* mocker.stop()
Stop ==
    /\ pc = "mockers"
    /\ \E k \in 1..Len(mockers) :
          MockerReturned("stop", k,
                         MockerStop(mockers[k], config.replace_new_patch_aliases, contextable))
    /\ UNCHANGED <<pc, sql, arg, renderer, renderables, side_effects>>

\* _hook of a started Mocker: the statement is rendered, under the alias
\* setting that pgmock.config returns at that time
Hook ==
    /\ pc = "mockers"
    /\ \E k \in 1..Len(mockers) :
          /\ mockers[k]._query_hook
          /\ out' = [err |-> "none", text |-> SqlView(render(<<>>, <<>>, sql)).text,
                     observed |-> get_replace_new_patch_aliases]
          /\ last' = [op |-> [name |-> "hook", mocker |-> k], before |-> mockers,
                      was |-> [value |-> config.replace_new_patch_aliases,
                               stack |-> contextable._value_stack]]
    /\ UNCHANGED <<pc, sql, arg, config, renderer, renderables, side_effects,
                   contextable, mockers>>

MockersNext == Start \/ Stop \/ Hook

SpecMockers == MockersInit /\ [][MockersNext]_vars

\* C18: from start() until stop() of a Mocker, the processwide
\* alias-rewrite value that its query hook observes is that Mocker's
\* replace_new_patch_aliases, for any interleaving of start() and stop() of
\* other Mockers with different settings, stops out of order included.
C18_HookObservesOwnSetting ==
    (pc = "mockers" /\ last.op.name = "hook") =>
        out.observed = mockers[last.op.mocker].replace_new_patch_aliases

(***************************************************************************)
(* Specification of _gen_values: it is called once on a dataset of rows    *)
(* and columns, with or without an alias and select_all_from.              *)
(***************************************************************************)
MaxRows == 2
MaxCols == 2

\* the values of the rows: None and the int 1
GenValues == {PyNone, PyInt(<<"1">>)}

\* the columns: a plain name, and a name with a type
GenCols == {<<"a">>, <<"b", ":", ":", "i">>}

GenAliases == {None, <<"t">>}

GenInit ==
    /\ pc = "gen"
    /\ sql = <<>>
    /\ arg \in [rows : SeqsUpTo(SeqsUpTo(GenValues, MaxCols), MaxRows),
                cols : SeqsUpTo(GenCols, MaxCols),
                alias : GenAliases,
                select_all_from : BOOLEAN]
    /\ out = NoOut
    /\ config = DefaultConfig
    /\ renderer = NoRenderer
    /\ last = NoLast
    /\ NoObjects

\* _gen_values(rows, cols, alias, select_all_from)
GenerateValues ==
    /\ pc = "gen"
    /\ pc' = "generated"
    /\ out' = _gen_values(arg.rows, arg.cols, arg.alias, arg.select_all_from)
    /\ UNCHANGED <<sql, arg, config, renderer, last, objects>>

GenNext == GenerateValues

SpecGen == GenInit /\ [][GenNext]_vars

\* the entry of a None in a column of type col_type: null, with the cast
\* to the type of the column if nulls are cast and the column has a type
NullEntry(col_type, cast) ==
    IF cast /\ col_type # None THEN <<"n", "u", "l", "l", ":", ":">> \o col_type
    ELSE <<"n", "u", "l", "l">>

\* the entry of a value in a column of type col_type
EntryOf(val, col_type, cast) ==
    IF val = PyNone THEN NullEntry(col_type, cast) ELSE _to_sql_value(val, col_type).text

\* the tuple of a row: short rows are padded with None up to the columns,
\* and a row stops at the last column when there are columns
ExpectedTuple(row, col_types, cast) ==
    LET padded == Padded(row, col_types)
        n == IF col_types = <<>> THEN Len(padded) ELSE Min(Len(padded), Len(col_types))
    IN  <<"(">> \o Join([k \in 1..n |->
                            EntryOf(padded[k], IF col_types = <<>> THEN None ELSE col_types[k],
                                    cast)], <<",">>) \o <<")">>

\* the literal of the dataset of arg: an empty dataset has the one row ()
ExpectedLiteral(cast) ==
    LET col_types == [k \in 1..Len(arg.cols) |-> ColType(arg.cols[k])]
        rows == IF arg.rows = <<>> THEN <<<<>>>> ELSE arg.rows
        tuples == [k \in 1..Len(rows) |->
                      [err |-> "none", text |-> ExpectedTuple(rows[k], col_types, cast)]]
    IN  ValuesOf(tuples, arg.rows = <<>>, arg.cols, arg.alias, arg.select_all_from).text

\* C19: None always serializes to exactly `null` with no `::type` suffix,
\* in every row position and for every column, typed or not, the nulls
\* that pad short rows and the placeholder row of an empty dataset
\* included.
C19_NullIsNeverCast ==
    pc = "generated" => (out.err = "none" /\ out.text = ExpectedLiteral(FALSE))

\* C19, amended: None serializes to `null` in a column without a type and
\* to `null::T` in a column of explicit type T, padding nulls and the
\* placeholder row of an empty dataset included.
C19_NullIsCastOnlyToExplicitType ==
    pc = "generated" => (out.err = "none" /\ out.text = ExpectedLiteral(TRUE))

\* C19 happens: a row has a None in the plain column and a None in the
\* typed column
C19_Witness ==
    /\ pc = "generated"
    /\ arg.cols = <<<<"a">>, <<"b", ":", ":", "i">>>>
    /\ \E k \in 1..Len(arg.rows) : arg.rows[k] = <<PyNone, PyNone>>
    /\ out.err = "none"

\* sub occurs in text
Contains(text, sub) ==
    \E i \in 0..(Len(text) - Len(sub)) : SubSeq(text, i + 1, i + Len(sub)) = sub

Limit0 == <<" ", "L", "I", "M", "I", "T", " ", "0">>

\* the VALUES list, inside the parentheses of `AS alias(cols)` when an
\* alias is given, after SELECT * FROM when select_all_from
LiteralAround(values) ==
    LET names == [k \in 1..Len(arg.cols) |-> <<"\"">> \o ColName(arg.cols[k]) \o <<"\"">>]
        aliased == IF arg.alias = None THEN values
                   ELSE <<"(">> \o values \o <<")", " ", "A", "S", " ">> \o arg.alias
                        \o <<"(">> \o Join(names, <<",">>) \o <<")">>
    IN  IF arg.select_all_from
        THEN <<"S", "E", "L", "E", "C", "T", " ", "*", " ", "F", "R", "O", "M", " ">> \o aliased
        ELSE aliased

\* C20: for an empty dataset with n >= 0 columns the literal is a VALUES
\* list of exactly one placeholder row of one null entry per column,
\* followed by ` LIMIT 0`, the LIMIT 0 being inside the parentheses that
\* the alias wraps; for a non-empty dataset there is no LIMIT 0 and the
\* literal has exactly one row tuple per row of the dataset, in order.
C20_EmptyDatasetIsOneNullRowLimit0 ==
    pc = "generated" =>
        LET col_types == [k \in 1..Len(arg.cols) |-> ColType(arg.cols[k])]
            placeholder == <<"(">> \o Join([k \in 1..Len(arg.cols) |->
                                               NullEntry(col_types[k], TRUE)], <<",">>)
                           \o <<")">>
            tuples == [k \in 1..Len(arg.rows) |->
                          _row_to_sql_values(arg.rows[k], col_types).text]
        IN  /\ out.err = "none"
            /\ arg.rows = <<>> =>
                  out.text = LiteralAround(<<"V", "A", "L", "U", "E", "S", " ">>
                                           \o placeholder \o Limit0)
            /\ arg.rows # <<>> =>
                  /\ ~Contains(out.text, Limit0)
                  /\ out.text = LiteralAround(<<"V", "A", "L", "U", "E", "S", " ">>
                                              \o Join(tuples, <<",">>))

\* C20 happens: the literal of an empty dataset with two columns and an
\* alias has been generated
C20_Witness ==
    /\ pc = "generated"
    /\ arg.rows = <<>>
    /\ Len(arg.cols) = 2
    /\ arg.alias # None
    /\ Contains(out.text, Limit0)

(***************************************************************************)
(* Specification of pgmock.sql called from two threads.  Here              *)
(* `contextable` is the save stack and _old_value of set_safe_mode, whose  *)
(* value is config.safe_mode.  Thread t renders the query arg[t].query     *)
(* with the Selector renderables[t]; its local `selector` is               *)
(* renderables[2 + t]; `last` holds its local safe_mode, the setting       *)
(* before its call, the safe mode its rendering saw, whether another call  *)
(* overlapped it and whether it began while no other call was running.     *)
(* A call is the steps: safe_mode default and chain(), the set call,       *)
(* __enter__, the rendering, __exit__.                                     *)
(***************************************************************************)
Threads == {1, 2}

\* the texts rendered: in safe mode the second has no table
SqlQueries ==
    {<<"f", "r", "o", "m", " ", "t">>,
     <<"'", "f", "r", "o", "m", " ", "t", "'">>}

\* the safe_mode argument: None, or <<b>> for the boolean b
SafeModes == {None, <<TRUE>>, <<FALSE>>}

\* the locals of a call that has not begun
NoLocals == [safe_mode |-> FALSE, before |-> <<>>, seen |-> <<>>, overlapped |-> FALSE,
             first |-> FALSE]

SqlInit ==
    /\ pc = [t \in Threads |-> "sql"]
    /\ sql = <<>>
    /\ arg \in [Threads -> [query : SqlQueries, safe_mode : SafeModes]]
    /\ out = [t \in Threads |-> NoOut]
    /\ config = DefaultConfig
    /\ renderer = NoRenderer
    /\ last = [t \in Threads |-> NoLocals]
    /\ renderables = <<chainable_render_method(NewRenderable("Selector"), TableT.chain[1]),
                       chainable_render_method(NewRenderable("Selector"), TableT.chain[1]),
                       NewRenderable("Renderable"), NewRenderable("Renderable")>>
    /\ side_effects = <<>>
    /\ contextable = NewContextable
    /\ mockers = <<>>

\* the other thread is inside its call
Overlaps(t) == \E u \in Threads \ {t} : pc[u] \notin {"sql", "done"}

\* the locals of the threads once thread t has taken a step
Stepped(locals, t) ==
    IF Overlaps(t) THEN [u \in Threads |-> [locals[u] EXCEPT !.overlapped = TRUE]]
    ELSE locals

\* str(sqla.text(selector.render(query).sql_view)) of thread t, under the
\* safe mode configured in the state where it is evaluated
SqlRendered(t) ==
    [err |-> SqlView(render(renderables[2 + t].chain, <<>>, arg[t].query)).err,
     n |-> SqlView(render(renderables[2 + t].chain, <<>>, arg[t].query)).n,
     text |-> SqlView(render(renderables[2 + t].chain, <<>>, arg[t].query)).text]

\* set_safe_mode(v), called outside any pgmock.sql
GlobalSafeMode ==
    /\ \A t \in Threads : pc[t] = "sql"
    /\ \E v \in BOOLEAN :
          /\ config' = [config EXCEPT !.safe_mode = ConfigCall(config.safe_mode, contextable, v).value]
          /\ contextable' = ConfigCall(config.safe_mode, contextable, v).contextable
    /\ UNCHANGED <<pc, sql, arg, out, renderer, last, renderables, side_effects, mockers>>

\* if safe_mode is None: safe_mode = get_safe_mode(); selector = chain(...)
SqlBegin(t) ==
    /\ pc[t] = "sql"
    /\ pc' = [pc EXCEPT ![t] = "chained"]
    /\ renderables' = [renderables EXCEPT ![2 + t] =
                          chain(renderables, side_effects, <<t>>).renderables[
                              chain(renderables, side_effects, <<t>>).chained]]
    /\ last' = Stepped([last EXCEPT ![t].safe_mode =
                                       IF arg[t].safe_mode = None THEN get_safe_mode
                                       ELSE arg[t].safe_mode[1],
                                    ![t].before =
                                       <<[value |-> get_safe_mode,
                                          depth |-> Len(contextable._value_stack)]>>,
                                    ![t].first = ~Overlaps(t)], t)
    /\ UNCHANGED <<sql, arg, out, config, renderer, side_effects, contextable, mockers>>

\* pgmock.config.set_safe_mode(safe_mode)
SqlSetSafeMode(t) ==
    /\ pc[t] = "chained"
    /\ pc' = [pc EXCEPT ![t] = "called"]
    /\ config' = [config EXCEPT !.safe_mode =
                     ConfigCall(config.safe_mode, contextable, last[t].safe_mode).value]
    /\ contextable' = ConfigCall(config.safe_mode, contextable, last[t].safe_mode).contextable
    /\ last' = Stepped(last, t)
    /\ UNCHANGED <<sql, arg, out, renderer, renderables, side_effects, mockers>>

\* __enter__ of the with statement: when it raises the call is over
SqlEnter(t) ==
    /\ pc[t] = "called"
    /\ pc' = [pc EXCEPT ![t] = IF ConfigEnter(config.safe_mode, contextable).err = "none"
                               THEN "entered" ELSE "done"]
    /\ out' = [out EXCEPT ![t] =
                  IF ConfigEnter(config.safe_mode, contextable).err = "none" THEN @
                  ELSE [err |-> ConfigEnter(config.safe_mode, contextable).err, n |-> 0,
                        text |-> <<>>]]
    /\ contextable' = ConfigEnter(config.safe_mode, contextable).contextable
    /\ last' = Stepped(last, t)
    /\ UNCHANGED <<sql, arg, config, renderer, renderables, side_effects, mockers>>

\* str(sqla.text(selector.render(query).sql_view))
SqlRender(t) ==
    /\ pc[t] = "entered"
    /\ pc' = [pc EXCEPT ![t] = "rendered"]
    /\ out' = [out EXCEPT ![t] = SqlRendered(t)]
    /\ last' = Stepped([last EXCEPT ![t].seen = <<get_safe_mode>>], t)
    /\ UNCHANGED <<sql, arg, config, renderer, renderables, side_effects, contextable, mockers>>

\* __exit__ of the with statement, after a return or an exception
SqlExit(t) ==
    /\ pc[t] = "rendered"
    /\ pc' = [pc EXCEPT ![t] = "done"]
    /\ config' = [config EXCEPT !.safe_mode = ConfigExit(config.safe_mode, contextable).value]
    /\ contextable' = ConfigExit(config.safe_mode, contextable).contextable
    /\ out' = [out EXCEPT ![t] =
                  IF ConfigExit(config.safe_mode, contextable).err = "none" THEN @
                  ELSE [err |-> ConfigExit(config.safe_mode, contextable).err, n |-> 0,
                        text |-> <<>>]]
    /\ last' = Stepped(last, t)
    /\ UNCHANGED <<sql, arg, renderer, renderables, side_effects, mockers>>

SqlNext ==
    \/ GlobalSafeMode
    \/ \E t \in Threads : SqlBegin(t)
    \/ \E t \in Threads : SqlSetSafeMode(t)
    \/ \E t \in Threads : SqlEnter(t)
    \/ \E t \in Threads : SqlRender(t)
    \/ \E t \in Threads : SqlExit(t)

SpecSql == SqlInit /\ [][SqlNext]_vars

\* what the call of thread t returns or raises when it runs alone: the
\* rendering of its query under the safe mode it asked for
SqlAlone(t) ==
    LET returned ==
            SqlView(RenderLoop(Carried(RendererOf(RenderSQLIn(arg[t].query, last[t].safe_mode),
                                                  <<ViewNoPatch(Slice(0, Len(arg[t].query)))>>),
                                       <<>>),
                               renderables[t].chain))
    IN  [err |-> returned.err, n |-> returned.n, text |-> returned.text]

\* C21: two threads each run pgmock.sql on inputs of their own; under
\* every interleaving of their steps each call completes with the result
\* it has when run alone, and once both are over the processwide safe-mode
\* value is what it was before them.
C21_SqlIsSafeFromConcurrentCalls ==
    /\ \A t \in Threads : pc[t] = "done" => out[t] = SqlAlone(t)
    /\ (\A t \in Threads : pc[t] = "done") =>
          \A t \in Threads : last[t].first => get_safe_mode = last[t].before[1].value

\* C29: pgmock.sql leaves the processwide safe-mode setting unchanged: for
\* every text and safe_mode argument, the value of get_safe_mode() and the
\* depth of the save stack after a call that no other call overlaps are
\* those before it, whether it returned or raised, and the rendering saw
\* the safe mode asked for.
C29_SqlRestoresSafeMode ==
    \A t \in Threads :
        (~last[t].overlapped /\ ~Overlaps(t)) =>
            /\ pc[t] = "rendered" => last[t].seen = <<last[t].safe_mode>>
            /\ pc[t] = "done" =>
                  /\ get_safe_mode = last[t].before[1].value
                  /\ Len(contextable._value_stack) = last[t].before[1].depth
                  /\ last[t].seen = <<last[t].safe_mode>>
                  /\ out[t] = SqlAlone(t)

\* C29 happens: a call asking for safe mode while it is off processwide
\* has raised NoMatchError, with no other call running meanwhile
C29_Witness ==
    \E t \in Threads :
        /\ pc[t] = "done"
        /\ ~last[t].overlapped
        /\ arg[t].safe_mode = <<TRUE>>
        /\ last[t].before[1].value = FALSE
        /\ out[t].err = "NoMatchError"

(***************************************************************************)
(* Claims about the Views of the Renderers of rendering (Spec)             *)
(***************************************************************************)
\* the View v lies within a text of length n, its ranges running forward
WellFormedView(v, n) ==
    /\ 0 <= v.bounds.start
    /\ v.bounds.start <= v.bounds.stop
    /\ v.bounds.stop <= n
    /\ v.has_patch => v.patch.start <= v.patch.stop

\* C22: every View of every Renderer reached by matcher, body, indexing
\* and patch operations has 0 <= bounds.start <= bounds.stop <= len(text)
\* and, when it has a patch range, patch.start <= patch.stop; this holds
\* for statement(i, j) for every 0 <= i <= j its assertions accept and for
\* the create_table_as and insert_into Views that end at a ';'.
C22_ViewsAreWellFormed ==
    (pc = "render" /\ renderer.err = "none") =>
        \A k \in 1..Len(renderer.views) :
            WellFormedView(renderer.views[k], Len(renderer.raw_sql))

\* C23: every Renderer reached by matcher, indexing or slicing, body and
\* patch operations holds at least one View.
C23_RendererHoldsAView ==
    (pc = "render" /\ renderer.err = "none") => Len(renderer.views) >= 1

(***************************************************************************)
(* Specification of the builders: Selectors and Mockers are made, their    *)
(* public methods called and queries rendered on them.  A Renderable holds *)
(* its chain and its renderings by reference, and Mocker(renderable=r)     *)
(* takes the very lists of r, so here `renderables` is [objs, lists,       *)
(* renderings]: the objects, each [kind, _chain, renderings] with _chain a *)
(* position in lists and renderings a position in renderings, and the list *)
(* objects of the two kinds.                                               *)
(***************************************************************************)
MaxBuilt == 3
MaxBuiltChain == 2
MaxRendered == 2

\* the render methods of the matchers called on a Selector
BuilderCalls ==
    {[name |-> "statement", start |-> 0, end |-> 0],
     [name |-> "table", table |-> <<"t">>, alias |-> None]}

\* the patch of the builders
BuilderPatch == PatchMethod(NoSelector, <<<<PyInt(<<"1">>)>>>>, <<<<"c">>>>, NoSideEffect)

\* the texts rendered: two statements with a table t each, and no table
BuilderQueries ==
    {<<"f", "r", "o", "m", " ", "t", ";", "f", "r", "o", "m", " ", "t">>,
     <<"x">>}

\* Renderable.__init__(renderable=None): new lists for the chain and the
\* renderings
BuiltNew(h, kind) ==
    [objs |-> Append(h.objs, [kind |-> kind, _chain |-> Len(h.lists) + 1,
                              renderings |-> Len(h.renderings) + 1]),
     lists |-> Append(h.lists, <<>>),
     renderings |-> Append(h.renderings, <<>>)]

\* Renderable.__init__(renderable=r): self._chain = renderable._chain and
\* self.renderings = renderable.renderings
BuiltFrom(h, kind, r) ==
    [h EXCEPT !.objs = Append(@, [kind |-> kind, _chain |-> h.objs[r]._chain,
                                  renderings |-> h.objs[r].renderings])]

\* the wrapper of chainable_render_method on the object at r:
\* self._chain.append(render_method)
BuiltCall(h, r, m) == [h EXCEPT !.lists[h.objs[r]._chain] = Append(@, m)]

\* Selector.patch: Mocker(renderable=self).patch(...)
BuiltSelectorPatch(h, r, m) == BuiltCall(BuiltFrom(h, "Mocker", r), Len(h.objs) + 1, m)

\* chained = copy.deepcopy(renderables[0]): a new object with new lists
BuiltCopy(h, r) ==
    [objs |-> Append(h.objs, [kind |-> h.objs[r].kind, _chain |-> Len(h.lists) + 1,
                              renderings |-> Len(h.renderings) + 1]),
     lists |-> Append(h.lists, h.lists[h.objs[r]._chain]),
     renderings |-> Append(h.renderings, h.renderings[h.objs[r].renderings])]

RECURSIVE BuiltChainLoop(_, _, _)
\* for renderable in renderables[1:]: chained.chain(renderable), chained
\* being the object made last; [err, h]
BuiltChainLoop(h, chained, refs) ==
    IF refs = <<>> THEN [err |-> "none", h |-> h]
    ELSE IF ~IsInstance(h.objs[Head(refs)].kind, h.objs[chained].kind)
    THEN [err |-> "SelectorChainingError", h |-> h]
    ELSE BuiltChainLoop([h EXCEPT !.lists[h.objs[chained]._chain] =
                                      @ \o h.lists[h.objs[Head(refs)]._chain]],
                        chained, Tail(refs))

\* chain(*renderables) for the objects at refs, refs not empty
BuiltChain(h, refs) ==
    BuiltChainLoop(BuiltCopy(h, Head(refs)), Len(h.objs) + 1, Tail(refs))

\* Rendering(original=sql, rendered=rendered); rendered is None, or a text
Rendering_(original, r) ==
    [original |-> original,
     rendered |-> IF HasOneView(r) THEN [is_none |-> FALSE, text |-> sql_view(r)]
                  ELSE [is_none |-> TRUE, text |-> <<>>]]

\* a render that records the call although the loop over the chain raised
BuiltRenderAlways(h, r, query, returned) ==
    [h EXCEPT !.renderings[h.objs[r].renderings] = Append(@, Rendering_(query, returned))]

\* Renderable.render(sql) on the object at r, given the Renderer that the
\* loop over the chain returned or the exception it raised
BuiltRender(h, r, query, returned) ==
    IF returned.err # "none" THEN h
    ELSE [h EXCEPT !.renderings[h.objs[r].renderings] = Append(@, Rendering_(query, returned))]

\* No builder call yet.  calls[r] is the number of render calls that
\* completed on the object at r.
NoBuilt == [op |-> [name |-> "none", ref |-> 0], before |-> <<>>, calls |-> <<>>]

BuilderInit ==
    /\ pc = "build"
    /\ sql = <<>>
    /\ arg = NoArg
    /\ out = NoOut
    /\ config = DefaultConfig
    /\ renderer = NoRenderer
    /\ last = NoBuilt
    /\ renderables = [objs |-> <<>>, lists |-> <<>>, renderings |-> <<>>]
    /\ side_effects = <<>>
    /\ contextable = NewContextable
    /\ mockers = <<>>

Built(name, r, h) ==
    /\ renderables' = h
    /\ sql' = <<>>
    /\ last' = [op |-> [name |-> name, ref |-> r], before |-> renderables,
                calls |-> last.calls \o [k \in 1..(Len(h.objs) - Len(last.calls)) |-> 0]]
    /\ UNCHANGED <<pc, arg, out, config, renderer, side_effects, contextable, mockers>>

\* Selector() or Mocker()
BuildNew ==
    /\ pc = "build"
    /\ Len(renderables.objs) < MaxBuilt
    /\ \E kind \in {"Selector", "Mocker"} : Built("new", 0, BuiltNew(renderables, kind))

\* a matcher called on a Selector
BuildMatcher ==
    /\ pc = "build"
    /\ \E r \in 1..Len(renderables.objs) :
          /\ renderables.objs[r].kind = "Selector"
          /\ Len(renderables.lists[renderables.objs[r]._chain]) < MaxBuiltChain
          /\ \E m \in BuilderCalls : Built("matcher", r, BuiltCall(renderables, r, m))

\* selector.patch(rows, cols): a Mocker is returned
BuildSelectorPatch ==
    /\ pc = "build"
    /\ Len(renderables.objs) < MaxBuilt
    /\ \E r \in 1..Len(renderables.objs) :
          /\ renderables.objs[r].kind = "Selector"
          /\ Len(renderables.lists[renderables.objs[r]._chain]) < MaxBuiltChain
          /\ Built("selector_patch", r, BuiltSelectorPatch(renderables, r, BuilderPatch))

\* mocker.patch(rows, cols)
BuildMockerPatch ==
    /\ pc = "build"
    /\ \E r \in 1..Len(renderables.objs) :
          /\ renderables.objs[r].kind = "Mocker"
          /\ Len(renderables.lists[renderables.objs[r]._chain]) < MaxBuiltChain
          /\ Built("mocker_patch", r, BuiltCall(renderables, r, BuilderPatch))

\* chain(x, y); when it raises, the copy it made is dropped
BuildChain ==
    /\ pc = "build"
    /\ Len(renderables.objs) < MaxBuilt
    /\ \E x \in 1..Len(renderables.objs), y \in 1..Len(renderables.objs) :
          /\ Len(renderables.lists[renderables.objs[x]._chain])
                + Len(renderables.lists[renderables.objs[y]._chain]) <= MaxBuiltChain
          /\ Built("chain", x,
                   IF BuiltChain(renderables, <<x, y>>).err = "none"
                   THEN BuiltChain(renderables, <<x, y>>).h ELSE renderables)

RECURSIVE Sum(_)
Sum(s) == IF s = <<>> THEN 0 ELSE Head(s) + Sum(Tail(s))

\* what a render call leaves, given the Renderer that the loop over the
\* chain returned or the exception it raised
Renders(r, query, returned) ==
    /\ sql' = query
    /\ renderables' = BuiltRender(renderables, r, query, returned)
    /\ last' = [op |-> [name |-> "render", ref |-> r], before |-> renderables,
                calls |-> IF returned.err = "none"
                          THEN [last.calls EXCEPT ![r] = @ + 1] ELSE last.calls]
    /\ UNCHANGED <<pc, arg, out, config, renderer, side_effects, contextable, mockers>>

\* renderable.render(query)
BuildRender ==
    /\ pc = "build"
    /\ \E r \in 1..Len(renderables.objs) :
          /\ Sum(last.calls) < MaxRendered
          /\ \E query \in BuilderQueries :
                Renders(r, query,
                        render(renderables.lists[renderables.objs[r]._chain], <<>>,
                               query).renderer)

BuilderNext ==
    \/ BuildNew
    \/ BuildMatcher
    \/ BuildSelectorPatch
    \/ BuildMockerPatch
    \/ BuildChain
    \/ BuildRender

SpecBuilder == BuilderInit /\ [][BuilderNext]_vars

\* C24: once patch is applied only patch can be chained: in the chain of
\* every object reached by the public builder calls no other render
\* method comes after a patch; in particular a matcher called on a
\* Selector after .patch(...) was called on it is not placed after the
\* patch in the chain of the Mocker that .patch(...) returned.
C24_OnlyPatchAfterPatch ==
    pc = "build" =>
        \A r \in 1..Len(renderables.objs) :
            \A i, j \in 1..Len(renderables.lists[renderables.objs[r]._chain]) :
                (i < j /\ renderables.lists[renderables.objs[r]._chain][i].name = "patch")
                    => renderables.lists[renderables.objs[r]._chain][j].name = "patch"

\* C25: entering the configuration value as a context manager without a
\* set call of a with statement immediately before it (`with set_val:`)
\* raises TypeError and leaves the value and the save stack unchanged, in
\* every reachable state: initially, after global set calls, after scoped
\* overrides have exited.
C25_DirectEnterRaisesTypeError ==
    (pc = "config" /\ last.op.name = "enter"
        /\ ~(last.prev.name = "call" /\ last.prev.scoped)) =>
        /\ out.err = "TypeError"
        /\ config.replace_new_patch_aliases = last.was.value
        /\ contextable._value_stack = last.was.stack

AliasPres == {<<>>, <<"s", ".", "t", ".", "c", " ">>, <<"x", "s", ".", "t", ".", "c", " ">>, <<"b", ".", "c", " ">>}
AliasFroms == {<<"f", "r", "o", "m", " ", "s", ".", "t">>, <<"f", "r", "o", "m", " ", "s", ".", "t", " ", "b">>}
AliasPosts == {<<>>, <<" ", "j", "o", "i", "n", " ", "s", ".", "t">>, <<";", "s", ".", "t", ".", "c">>, <<" ", "j", "o", "i", "n", " ", "s", ".", "t", " ", "o", "n", " ", "s", ".", "t", ".", "c">>}
AliasQueries == {pre \o from \o post : pre \in AliasPres, from \in AliasFroms, post \in AliasPosts}

\* table('s.t') and table('s.t', alias='b')
AliasTables ==
    {[name |-> "table", table |-> <<"s", ".", "t">>, alias |-> None],
     [name |-> "table", table |-> <<"s", ".", "t">>, alias |-> <<"b">>]}

\* table(...).patch(rows, cols) and patch(table(...), rows, cols)
AliasChains ==
    {<<m, PatchMethod(NoSelector, <<<<PyInt(<<"1">>)>>>>, <<<<"c">>>>, NoSideEffect)>> :
        m \in AliasTables}
    \cup {<<PatchMethod([given |-> TRUE, chain |-> <<m>>], <<<<PyInt(<<"1">>)>>>>,
                        <<<<"c">>>>, NoSideEffect)>> : m \in AliasTables}

AliasInit ==
    /\ pc = "alias"
    /\ sql \in AliasQueries
    /\ arg = NoArg
    /\ out = NoOut
    /\ config \in {[DefaultConfig EXCEPT !.replace_new_patch_aliases = b] : b \in BOOLEAN}
    /\ renderer = NoRenderer
    /\ last = [op |-> <<>>]
    /\ NoObjects

\* Renderable.render(sql) for a chain that patches the table
AliasRender ==
    /\ pc = "alias"
    /\ \E c \in AliasChains :
          /\ renderer' = render(c, <<>>, sql).renderer
          /\ last' = [op |-> c]
    /\ pc' = "rendered"
    /\ UNCHANGED <<sql, arg, out, config, objects>>

AliasNext == AliasRender

SpecAlias == AliasInit /\ [][AliasNext]_vars

RECURSIVE PatchedPlain(_, _, _)
\* the text with the patch range of every view replaced by a space and the
\* values, and nothing else changed
PatchedPlain(s, views, values) ==
    IF views = <<>> THEN s
    ELSE PatchedPlain(PyUpTo(s, views[Len(views)].patch.start) \o <<" ">> \o values
                        \o PyFrom(s, views[Len(views)].patch.stop),
                      SubSeq(views, 1, Len(views) - 1), values)

\* the table method of the chain rendered
AliasTable ==
    IF last.op[1].name = "table" THEN last.op[1] ELSE last.op[1].selector.chain[1]

\* the views of the table in the query, and the text the patch leaves when
\* no alias is rewritten
AliasViews == TableIn(sql, AliasTable.table, AliasTable.alias).views
AliasPlain ==
    PatchedPlain(sql, AliasViews,
                 _gen_values(<<<<PyInt(<<"1">>)>>>>, <<<<"c">>>>,
                             AliasViews[1].patch_params.patch_alias, FALSE).text)

\* the offsets of the text that lie in a whole-word occurrence of
\* `orig_alias.`, and the occurrence each lies in
AliasRefs(s, orig_alias) == {j \in 0..(Len(s) - 1) : AliasRefAt(s, orig_alias, j)}

\* C27: when alias rewrite is enabled and orig_alias differs from
\* patch_alias, every whole-word occurrence of `orig_alias.` in the patched
\* text is replaced by patch_alias padded with spaces to the length of
\* orig_alias, then '.', so the length of the text and every other
\* character stay as the patch left them; when the rewrite is disabled or
\* the aliases are equal, no character outside the patch ranges is changed.
C27_AliasRewriteKeepsLength ==
    (pc = "rendered" /\ renderer.err = "none") =>
        LET pp == AliasViews[1].patch_params
            plain == AliasPlain
            refs == AliasRefs(plain, pp.orig_alias)
            to == Spaces(Len(pp.orig_alias) - Len(pp.patch_alias)) \o pp.patch_alias \o <<".">>
        IN  IF config.replace_new_patch_aliases /\ pp.orig_alias # pp.patch_alias
            THEN /\ Len(renderer.raw_sql) = Len(plain)
                 /\ \A j \in refs :
                      PySlice(renderer.raw_sql, j, j + Len(pp.orig_alias) + 1) = to
                 /\ \A i \in 0..(Len(plain) - 1) :
                      \/ renderer.raw_sql[i + 1] = plain[i + 1]
                      \/ \E j \in refs : j <= i /\ i < j + Len(pp.orig_alias) + 1
            ELSE renderer.raw_sql = plain

\* two tables s.t have been patched and a reference s.t.c before them and
\* one after them rewritten
C27_Witness ==
    /\ pc = "rendered"
    /\ renderer.err = "none"
    /\ config.replace_new_patch_aliases
    /\ Len(AliasViews) = 2
    /\ AliasViews[1].patch_params.orig_alias # AliasViews[1].patch_params.patch_alias
    /\ Cardinality(AliasRefs(AliasPlain, AliasViews[1].patch_params.orig_alias)) = 2
    /\ renderer.raw_sql # AliasPlain

\* C28: after patch without a selector on a single patchable View, the View
\* returned contains the whole replacement literal: its bounds end at or
\* after the last character of the literal, which was put in at the start
\* of the patch range of the View, after one space.
C28_PatchedViewHoldsLiteral ==
    (/\ pc = "render"
     /\ last.op.name = "patch"
     /\ ~last.op.selector.given
     /\ renderer.err = "none") =>
        view(renderer).bounds.stop >=
            view(last.before).patch.start + 1
              + Len(_gen_values(last.op.rows, last.op.cols,
                                view(last.before).patch_params.patch_alias,
                                view(last.before).patch_params.select_all_from).text)

\* C30: for any interleaving of start() and stop() on the Mockers (start
\* of a started Mocker, stop of one never started and stops out of order
\* included), once every started Mocker has been stopped the processwide
\* alias-rewrite value is the one before the first start and the save
\* stack is empty; a start() that fails with NoConnectableError changes
\* neither.
C30_AllStoppedRestoresValue ==
    pc = "mockers" =>
        /\ (\A k \in 1..Len(mockers) : ~mockers[k]._replace_new_patch_aliases_config) =>
              /\ config.replace_new_patch_aliases = DefaultConfig.replace_new_patch_aliases
              /\ contextable._value_stack = <<>>
        /\ (last.op.name = "start" /\ out.err = "NoConnectableError") =>
              /\ config.replace_new_patch_aliases = last.was.value
              /\ contextable._value_stack = last.was.stack
              /\ mockers = last.before

\* the last started Mocker has been stopped after stops out of order: the
\* value it left was not its own setting, nor the value before the first
\* start
C30_Witness ==
    /\ pc = "mockers"
    /\ last.op.name = "stop"
    /\ \A k \in 1..Len(mockers) : ~mockers[k]._replace_new_patch_aliases_config
    /\ last.before[last.op.mocker]._replace_new_patch_aliases_config
    /\ Len(last.was.stack) = 1
    /\ last.was.value # DefaultConfig.replace_new_patch_aliases
    /\ last.before[last.op.mocker].replace_new_patch_aliases # last.was.value

\* a start() has failed with NoConnectableError while another Mocker was
\* started
C30_WitnessNoConnectable ==
    /\ pc = "mockers"
    /\ last.op.name = "start"
    /\ out.err = "NoConnectableError"
    /\ contextable._value_stack # <<>>


====
